---- MODULE Spec2Model ----
(***************************************************************************)
(* Leases-Licensing: the proposal processing state machine                 *)
(* (components/proposals/models.py) and the invoice ledger                 *)
(* (components/invoicing).  One proposal is followed through assessment,   *)
(* referral and approval issuance; one invoice through its transactions.   *)
(* The variables hold the rows of the relational store; a handler that     *)
(* runs inside transaction.atomic() and leaves by an exception keeps none  *)
(* of its writes.                                                          *)
(***************************************************************************)
EXTENDS Integers, Sequences, FiniteSets, TLC

\* ---------------------------------------------------------------- bounds
\* ProposalUserAction rows written since the initial state
MaxLog == 5
\* rows of the Referral table for the proposal
MaxReferrals == 2
\* LeaseLicenceApprovalDocument rows of one document type
MaxDocs == 2
\* InvoiceTransaction rows of the invoice
MaxTransactions == 3
MaxInvoices == 2
MaxChildren == 3
MaxRequirements == 5
MaxCompliances == 8
MaxDue == 2

\* ------------------------------------------------- users and their groups
\* EmailUser ids.  1 is a member of the assessor SystemGroup only, 2 of the
\* approver SystemGroup only, 3 of neither; 3 is the only finance officer.
Users == {1, 2, 3}
AssessorGroup == {1}
ApproverGroup == {2}
FinanceGroup == {3}
\* addresses a referral can be sent to: ids of the users they resolve to,
\* and 0 for an address that is neither in the ledger nor a department user
ReferralEmails == {0, 2, 3}

\* ------------------------------------------------------------- constants
PROPOSAL_TYPE_NEW == "new"
PROPOSAL_TYPE_RENEWAL == "renewal"
PROPOSAL_TYPE_AMENDMENT == "amendment"
APPLICATION_TYPE_REGISTRATION_OF_INTEREST == "registration_of_interest"
APPLICATION_TYPE_LEASE_LICENCE == "lease_licence"

PROCESSING_STATUS_DRAFT == "draft"
PROCESSING_STATUS_AMENDMENT_REQUIRED == "amendment_required"
PROCESSING_STATUS_WITH_ASSESSOR == "with_assessor"
PROCESSING_STATUS_WITH_ASSESSOR_CONDITIONS == "with_assessor_conditions"
PROCESSING_STATUS_WITH_APPROVER == "with_approver"
PROCESSING_STATUS_WITH_REFERRAL == "with_referral"
PROCESSING_STATUS_WITH_REFERRAL_CONDITIONS == "with_referral_conditions"
PROCESSING_STATUS_APPROVED_APPLICATION == "approved_application"
PROCESSING_STATUS_APPROVED_COMPETITIVE_PROCESS == "approved_competitive_process"
PROCESSING_STATUS_APPROVED_EDITING_INVOICING == "approved_editing_invoicing"
PROCESSING_STATUS_APPROVED == "approved"
PROCESSING_STATUS_DECLINED == "declined"
PROCESSING_STATUS_DISCARDED == "discarded"

CUSTOMER_EDITABLE_STATE ==
    {PROCESSING_STATUS_DRAFT, PROCESSING_STATUS_AMENDMENT_REQUIRED}

REFERRAL_WITH_REFERRAL == "with_referral"
REFERRAL_RECALLED == "recalled"
REFERRAL_COMPLETED == "completed"

\* ids of the ProposalStandardRequirement rows with default=True,
\* obsolete=False for the proposal's application type
DefaultStandardRequirements == {1, 2}

VARIABLES
    proposal,       \* the Proposal row
    referrals,      \* Referral rows of the proposal, in creation order
    requirements,   \* ProposalRequirement rows of the proposal
    geometries,     \* ProposalGeometry rows of the proposal
    action_logs,    \* number of ProposalUserAction rows of the proposal
    approvals,      \* Approval rows
    invoice,        \* the Invoice row
    transactions,   \* InvoiceTransaction rows of the invoice
    ledger_net,     \* credits minus debits accepted so far (history)
    calls,          \* requests in progress: the Proposal object each loaded
    invoicing,      \* the InvoicingDetails row of the proposal
    invoices,       \* Invoice rows raised for the approval
    issued,         \* start and expiry date the proposal was approved with
    children,       \* Proposal rows whose previous_application is the proposal
    elsewhere,      \* ProposalRequirement rows of another proposal
    compliances,    \* Compliance rows of the proposal and of the previous one
    cron,           \* the items of a cron job, what it sent and reported
    last            \* the last request and its outcome (history)

vars == <<proposal, referrals, requirements, geometries, action_logs,
          approvals, invoice, transactions, ledger_net, calls, invoicing,
          invoices, issued, children, elsewhere, compliances, cron,
          last>>

\* the renewals and amendments of the proposal, and the requirements of
\* another proposal
lineage == <<issued, children, elsewhere>>

\* what the requests of the assessment and of the ledger leave alone
aside == <<calls, invoicing, invoices, lineage, compliances, cron>>

\* what the requests on the proposal, its invoices and its renewals leave alone
sundry == <<compliances, cron>>

\* no cron job has run
NoReport == [finished |-> FALSE, counted |-> FALSE, errors |-> 0]

NoCron == [job |-> "None", day |-> 0, items |-> <<>>, sent |-> <<>>,
           report |-> NoReport]

\* the part of the store the proposal handlers read and write
Store == [proposal |-> proposal, referrals |-> referrals,
          requirements |-> requirements, geometries |-> geometries,
          action_logs |-> action_logs, approvals |-> approvals]

Outcome(e, s) == [err |-> e, st |-> s]

\* request.data of an approval request: the fields that are filled in
NoDetails == [details |-> FALSE, decision |-> "", approval_type |-> FALSE,
              start_date |-> FALSE, expiry_date |-> FALSE]

\* rows an approval request reads and no handler here writes: whether the
\* applicant has an address, how many documents of each type are attached
\* for the approval type, and the document types that are mandatory for it
NoEnv == [address |-> FALSE,
          docs |-> [licence |-> 0, cover_letter |-> 0, sign_off_sheet |-> 0],
          mandatory |-> {}]

\* what is remembered of a request: the handler, how it ended ("ok" or the
\* exception it raised) and whether it changed any row
Request(op, e) == [op |-> op, err |-> e, wrote |-> FALSE]

\* ------------------------------------------------------ transaction.atomic
\* a handler that is not wrapped in a transaction keeps what it wrote
NotAtomic(before, out) == out.st

\* leaving the atomic block by an exception discards the block's writes
Atomic(before, out) == IF out.err # "ok" THEN before ELSE out.st

\* ---------------------------------------------------------- authorisation
AnyoneCanAssess(p, user) == TRUE

can_assess(p, user) ==
    IF p.processing_status \in {"on_hold", "with_qa_officer", "with_assessor",
                                "with_referral", "with_referral_conditions",
                                "with_assessor_conditions"}
    THEN user \in AssessorGroup
    ELSE IF p.processing_status = PROCESSING_STATUS_WITH_APPROVER
         THEN user \in ApproverGroup
         ELSE FALSE

is_referee(s, user) ==
    /\ s.proposal.processing_status \in
         {PROCESSING_STATUS_WITH_REFERRAL, PROCESSING_STATUS_WITH_REFERRAL_CONDITIONS}
    /\ \E i \in DOMAIN s.referrals : s.referrals[i].referral = user

can_user_edit(p) == p.processing_status \in CUSTOMER_EDITABLE_STATE

\* ProposalUserAction.log_action: one more row
log_user_action(s) == [s EXCEPT !.action_logs = @ + 1]

\* ------------------------------------------------------------ requirements
\* ProposalRequirement.save: a new row gets req_order max+1 (1 when there
\* is no row, or no row with a req_order)
RECURSIVE MaxReqOrder(_)
MaxReqOrder(reqs) ==
    IF reqs = <<>> THEN 0
    ELSE LET m == MaxReqOrder(Tail(reqs))
         IN IF Head(reqs).req_order > m THEN Head(reqs).req_order ELSE m

NewRequirement(reqs, std) ==
    [standard_requirement |-> std, due_date |-> 0, is_deleted |-> FALSE,
     req_order |-> MaxReqOrder(reqs) + 1]

\* ----------------------------------------------------- requirement order
\* req_order None is 0. The rows filter(is_deleted=False) returns
Listed(reqs) == {i \in DOMAIN reqs : ~reqs[i].is_deleted}

\* order_by("req_order"): NULL after every value, rows that compare equal
\* by id
ComesBefore(reqs, i, j) ==
    LET a == reqs[i].req_order
        b == reqs[j].req_order
    IN IF a = b THEN i < j
       ELSE IF a = 0 THEN FALSE
       ELSE IF b = 0 THEN TRUE
       ELSE a < b

\* the place of a listed row in the ordered queryset, from 0
Place(reqs, i) ==
    Cardinality({j \in Listed(reqs) : ComesBefore(reqs, j, i)})

\* ProposalRequirement.swap_obj: the row at the place before (up) or after
\* the place of this row, 0 when the index is outside the queryset. The
\* loop that counts the place ends at the last row when this row is not
\* listed
swap_obj(reqs, self, up) ==
    LET increment == IF self \in Listed(reqs) THEN Place(reqs, self)
                     ELSE Cardinality(Listed(reqs)) - 1
        swap_increment == IF up THEN increment - 1 ELSE increment + 1
    IN IF swap_increment < 0 \/ swap_increment >= Cardinality(Listed(reqs))
       THEN 0
       ELSE CHOOSE j \in Listed(reqs) : Place(reqs, j) = swap_increment

\* the unique constraint on (proposal, req_order): NULLs do not collide
UniqueOrder(reqs) ==
    \A i, j \in DOMAIN reqs :
        (i < j /\ reqs[i].req_order # 0)
        => reqs[i].req_order # reqs[j].req_order

\* a save of row i with a req_order, refused when the constraint fails
SaveOrder(out, i, order) ==
    IF out.err # "ok" THEN out
    ELSE LET saved == [out.st EXCEPT ![i].req_order = order]
         IN IF UniqueOrder(saved) THEN Outcome("ok", saved)
            ELSE Outcome("IntegrityError", out.st)

\* a swap that writes the new positions without clearing the old ones
SwapInPlace(reqs, self, other) ==
    SaveOrder(SaveOrder(Outcome("ok", reqs), self, reqs[other].req_order),
              other, reqs[self].req_order)

\* ProposalRequirement.swap: four saves, outside any transaction
swap(reqs, self, other) ==
    LET new_self_position == reqs[other].req_order
        new_other_position == reqs[self].req_order
        cleared == SaveOrder(SaveOrder(Outcome("ok", reqs), self, 0), other, 0)
    IN SaveOrder(SaveOrder(cleared, self, new_self_position),
                 other, new_other_position)

\* Min("req_order") and Max("req_order") of the listed rows, 0 for None
EndOrder(reqs, least) ==
    LET orders == {reqs[i].req_order : i \in Listed(reqs)} \ {0}
    IN IF orders = {} THEN 0
       ELSE CHOOSE o \in orders :
                \A q \in orders : IF least THEN o <= q ELSE o >= q

\* ProposalRequirement.move_up (up) and move_down
Move(reqs, self, up) ==
    IF reqs[self].req_order = EndOrder(reqs, up) THEN Outcome("ok", reqs)
    ELSE IF swap_obj(reqs, self, up) = 0 THEN Outcome("IndexError", reqs)
    ELSE swap(reqs, self, swap_obj(reqs, self, up))

move_up(reqs, self) == Move(reqs, self, TRUE)

move_down(reqs, self) == Move(reqs, self, FALSE)

\* get_or_create(proposal=self, standard_requirement=req, due_date=None)
RECURSIVE add_default_requirements_from(_, _)
add_default_requirements_from(reqs, todo) ==
    IF todo = {} THEN reqs
    ELSE LET std == CHOOSE x \in todo : \A y \in todo : x <= y
             found == \E i \in DOMAIN reqs :
                         /\ reqs[i].standard_requirement = std
                         /\ reqs[i].due_date = 0
             next == IF found THEN reqs
                     ELSE Append(reqs, NewRequirement(reqs, std))
         IN add_default_requirements_from(next, todo \ {std})

add_default_requirements(reqs) ==
    add_default_requirements_from(reqs, DefaultStandardRequirements)

\* ---------------------------------------------------------- move_to_status
\* ProposalGeometry.objects.filter(proposal=self)
\*     .exclude(Q(locked=True) | ~Q(drawn_by=user)).update(locked=True)
LockGeometries(geos, user) ==
    [i \in DOMAIN geos |->
        IF ~geos[i].locked /\ geos[i].drawn_by = user
        THEN [geos[i] EXCEPT !.locked = TRUE] ELSE geos[i]]

\* the branch of move_to_status taken when the status really changes to
\* with_assessor, with_assessor_conditions or with_approver
ChangeStatus(s, user, status, approver_comment) ==
    LET p0 == s.proposal
        p1 == IF p0.processing_status = "with_approver"
              THEN [p0 EXCEPT !.approver_comment = approver_comment]
              ELSE p0
        p2 == [p1 EXCEPT !.processing_status = status]
        reqs == IF status = "with_assessor_conditions" /\ Len(s.requirements) = 0
                THEN add_default_requirements(s.requirements)
                ELSE s.requirements
        s1 == [s EXCEPT !.proposal = p2, !.requirements = reqs,
                        !.geometries = LockGeometries(s.geometries, user)]
    IN IF status \in {PROCESSING_STATUS_WITH_ASSESSOR,
                      PROCESSING_STATUS_WITH_ASSESSOR_CONDITIONS}
       THEN log_user_action(s1) ELSE s1

SameStatusNever(p, status) == FALSE

SameStatus(p, status) == p.processing_status = status

CannotLeaveEditable(p) == can_user_edit(p)

\* the statuses an assessor or approver cannot move the proposal out of
CannotLeave(p) == p.processing_status = "with_referral" \/ can_user_edit(p)

move_to_status(s, user, status, approver_comment) ==
    IF ~can_assess(s.proposal, user) /\ ~is_referee(s, user)
    THEN Outcome("ProposalNotAuthorized", s)
    ELSE IF status \in {"with_assessor", "with_assessor_conditions", "with_approver"}
    THEN IF CannotLeave(s.proposal)
         THEN Outcome("ValidationError: cannot change the current status", s)
         ELSE IF ~SameStatus(s.proposal, status)
              THEN Outcome("ok", ChangeStatus(s, user, status, approver_comment))
              ELSE Outcome("ok", s)
    ELSE IF status \in {PROCESSING_STATUS_WITH_REFERRAL,
                        PROCESSING_STATUS_WITH_REFERRAL_CONDITIONS}
    THEN IF SameStatus(s.proposal, status)
         THEN Outcome("ok", s)
         ELSE Outcome("ok", [s EXCEPT !.proposal.processing_status = status])
    ELSE Outcome("ValidationError: status cannot be found", s)

\* ---------------------------------------------------------------- referrals
NewReferral(referee, sender, from) ==
    [referral |-> referee, sent_by |-> sender, sent_from |-> from,
     processing_status |-> REFERRAL_WITH_REFERRAL]

ReferralNeverFound(refs, user) == FALSE

\* Referral.objects.get(referral=user.id, proposal=self) finds a row
ReferralExists(refs, user) == \E i \in DOMAIN refs : refs[i].referral = user

NoReferralPending(refs) == FALSE

\* Referral.objects.filter(proposal=..., processing_status="with_referral")
\*     .exists()
PendingReferralExists(refs) ==
    \E i \in DOMAIN refs : refs[i].processing_status = REFERRAL_WITH_REFERRAL

\* Proposal.send_referral; referral_email 0 is an address that resolves to
\* no ledger user and no department user
send_referral(s, user, referral_email) ==
    IF s.proposal.processing_status \in
          {PROCESSING_STATUS_WITH_ASSESSOR, PROCESSING_STATUS_WITH_REFERRAL}
    THEN LET s1 == [s EXCEPT !.proposal.processing_status =
                                 PROCESSING_STATUS_WITH_REFERRAL]
         IN IF referral_email = 0
            THEN Outcome("ValidationError: not a member of the department", s1)
            ELSE IF ReferralExists(s1.referrals, referral_email)
            THEN Outcome("ValidationError: referral already sent", s1)
            ELSE Outcome("ok", log_user_action(
                     [s1 EXCEPT !.referrals =
                         Append(@, NewReferral(referral_email, user, 1))]))
    ELSE Outcome("ProposalReferralCannotBeSent", s)

\* Referral.recall
recall(s, user, i) ==
    IF ~can_assess(s.proposal, user)
    THEN Outcome("ProposalNotAuthorized", s)
    ELSE Outcome("ok", log_user_action(
             [s EXCEPT !.referrals[i].processing_status = REFERRAL_RECALLED]))

\* Referral.resend
resend(s, user, i) ==
    IF ~can_assess(s.proposal, user)
    THEN Outcome("ProposalNotAuthorized", s)
    ELSE Outcome("ok", log_user_action(
             [s EXCEPT !.referrals[i].processing_status = REFERRAL_WITH_REFERRAL,
                       !.referrals[i].sent_from = 1,
                       !.proposal.processing_status =
                           PROCESSING_STATUS_WITH_REFERRAL]))

\* the status Referral.complete gives the proposal back
StatusBeforeReferral(ref) ==
    IF ref.sent_from = 1 THEN PROCESSING_STATUS_WITH_ASSESSOR
    ELSE PROCESSING_STATUS_WITH_APPROVER

\* Referral.complete; referral_document tells whether the request carries
\* a referral document (add_referral_document then logs one more action)
complete(s, user, i, referral_document) ==
    LET s1 == [s EXCEPT !.referrals[i].processing_status = REFERRAL_COMPLETED]
        s2 == IF referral_document THEN log_user_action(s1) ELSE s1
        s3 == log_user_action(s2)
    IN IF ~PendingReferralExists(s3.referrals)
       THEN Outcome("ok", [s3 EXCEPT !.proposal.processing_status =
                                         StatusBeforeReferral(s.referrals[i])])
       ELSE Outcome("ok", s3)

\* Referral.send_referral: a referee passing the referral on. The method
\* compares request.user, a user object, with self.referral, the integer
\* id the row stores: the two are never equal, so that for every caller
\* the comparison `request.user != self.referral` holds
RequestUserIsNot(user, ref) == TRUE

referral_send_referral(s, user, i, referral_email) ==
    IF s.proposal.processing_status = PROCESSING_STATUS_WITH_REFERRAL
    THEN IF RequestUserIsNot(user, s.referrals[i])
         THEN Outcome("ReferralNotAuthorized", s)
         ELSE IF s.referrals[i].sent_from # 1
         THEN Outcome("ReferralCanNotSend", s)
         ELSE IF referral_email = 0
         THEN Outcome("ValidationError: not a member of the department", s)
         ELSE IF \E j \in DOMAIN s.referrals :
                     s.referrals[j].sent_by = referral_email
         THEN Outcome("ValidationError: cannot send referral to this user", s)
         ELSE IF ReferralExists(s.referrals, referral_email)
         THEN Outcome("ValidationError: referral already sent", s)
         ELSE Outcome("ok", log_user_action(
                  [s EXCEPT !.referrals =
                      Append(@, NewReferral(referral_email, user, 2))]))
    ELSE Outcome("ProposalReferralCannotBeSent", s)

\* -------------------------------------------------------- approval issuance
THIS == "proposal"
PREVIOUS == "previous_application"
GENERATED == "generated_proposal"

\* proposed_issuance_approval is NULL until proposed approval data is stored
NoIssuance == [stored |-> FALSE, decision |-> "", assessed_by |-> 0,
               approved_by |-> 0]

\* store_proposed_approval_data
store_proposed_approval_data(s, user, d, env) ==
    LET p == s.proposal
        roi == p.application_type = APPLICATION_TYPE_REGISTRATION_OF_INTEREST
        ll == p.application_type = APPLICATION_TYPE_LEASE_LICENCE
        non_field_errors ==
            \/ ~d.details
            \/ roi /\ d.decision = ""
            \/ ~roi /\ ll /\ (~d.approval_type \/ ~d.start_date \/ ~d.expiry_date)
        mandatory_doc_errors ==
            ll /\ \E t \in env.mandatory : env.docs[t] = 0
        status == p.processing_status
        pia == [stored |-> TRUE,
                decision |-> IF roi THEN d.decision ELSE "",
                assessed_by |->
                    IF status \in {PROCESSING_STATUS_WITH_ASSESSOR,
                                   PROCESSING_STATUS_WITH_ASSESSOR_CONDITIONS}
                    THEN user ELSE 0,
                approved_by |->
                    IF status = PROCESSING_STATUS_WITH_APPROVER THEN user ELSE 0]
    IN IF non_field_errors
       THEN Outcome("serializers.ValidationError: non_field_errors", s)
       ELSE IF mandatory_doc_errors
       THEN Outcome("serializers.ValidationError: missing mandatory documents", s)
       ELSE Outcome("ok", [s EXCEPT !.proposal.proposed_issuance_approval = pia])

\* proposed_approval
proposed_approval(s, user, d, env) ==
    LET p == s.proposal
        allowed ==
            \/ /\ p.application_type = APPLICATION_TYPE_REGISTRATION_OF_INTEREST
               /\ p.processing_status = PROCESSING_STATUS_WITH_ASSESSOR
            \/ /\ p.application_type = APPLICATION_TYPE_LEASE_LICENCE
               /\ p.processing_status = PROCESSING_STATUS_WITH_ASSESSOR_CONDITIONS
    IN IF ~can_assess(p, user) THEN Outcome("ProposalNotAuthorized", s)
       ELSE IF ~allowed
       THEN Outcome("ValidationError: cannot propose for approval", s)
       ELSE LET o1 == store_proposed_approval_data(s, user, d, env)
            IN IF o1.err # "ok" THEN o1
               ELSE LET o2 == move_to_status(o1.st, user,
                                   PROCESSING_STATUS_WITH_APPROVER, "")
                    IN IF o2.err # "ok" THEN o2
                       ELSE Outcome("ok", log_user_action(o2.st))

\* Approval.objects.update_or_create(current_proposal=cp, defaults=...):
\* the index of the row that is updated, or of the row that is appended
ApprovalFor(apps, cp) ==
    IF \E i \in DOMAIN apps : apps[i].current_proposal = cp
    THEN CHOOSE i \in DOMAIN apps : apps[i].current_proposal = cp
    ELSE Len(apps) + 1

update_or_create(apps, cp, new_cp) ==
    LET i == ApprovalFor(apps, cp)
    IN IF i \in DOMAIN apps
       THEN [apps EXCEPT ![i].current_proposal = new_cp]
       ELSE Append(apps, [current_proposal |-> new_cp, documents |-> FALSE])

AnyDocuments(docs) == TRUE

\* generate_license_documents: what the three counts allow
ExactlyOneOfEach(docs) ==
    /\ docs.licence = 1
    /\ docs.cover_letter = 1
    /\ docs.sign_off_sheet = 1

generate_license_documents(s, i, env) ==
    IF ~ExactlyOneOfEach(env.docs)
    THEN IF env.docs.licence # 1
         THEN Outcome("ValidationError: exactly one license document", s)
         ELSE IF env.docs.cover_letter # 1
         THEN Outcome("ValidationError: exactly one cover letter", s)
         ELSE Outcome("ValidationError: exactly one sign-off sheet", s)
    ELSE Outcome("ok", [s EXCEPT !.approvals[i].documents = TRUE])

\* generate_invoicing_details
generate_invoicing_details(s) ==
    IF s.proposal.invoicing_details
    THEN Outcome("ValidationError: already generated invoicing details", s)
    ELSE Outcome("ok", [s EXCEPT !.proposal.invoicing_details = TRUE])

\* generate_competitive_process
generate_competitive_process(s) ==
    IF s.proposal.generated_competitive_process
    THEN Outcome("ValidationError: already generated competitive process", s)
    ELSE Outcome("ok", [s EXCEPT !.proposal.generated_competitive_process = TRUE])

\* final_approval, Lease Licence (Renewal)
ApproveRenewal(s, user, env) ==
    LET p == s.proposal
    IN IF p.previous_approval = 0 \/ p.approval = 0
       THEN Outcome("AttributeError", s)
       ELSE IF p.previous_approval # p.approval
       THEN Outcome("ValidationError: approval does not match", s)
       ELSE LET cp == s.approvals[p.approval].current_proposal
                i == ApprovalFor(s.approvals, cp)
                s1 == [s EXCEPT !.approvals = update_or_create(@, cp, THIS)]
                o2 == generate_license_documents(s1, i, env)
            IN IF o2.err # "ok" THEN o2
               ELSE LET o3 == generate_invoicing_details(o2.st)
                    IN IF o3.err # "ok" THEN o3
                       ELSE Outcome("ok",
                              [o3.st EXCEPT
                                 !.proposal.processing_status =
                                     PROCESSING_STATUS_APPROVED_EDITING_INVOICING,
                                 !.proposal.approved_by = user])

\* final_approval, Lease Licence (Amendment)
ApproveAmendment(s) ==
    IF s.proposal.previous_application
    THEN IF s.proposal.previous_approval = 0
         THEN Outcome("AttributeError", s)
         ELSE Outcome("ok",
                [s EXCEPT !.approvals = update_or_create(@, THIS, THIS)])
    ELSE Outcome("ok", s)

\* final_approval, Registration of Interest (New)
ApproveRegistrationOfInterest(s) ==
    LET p == s.proposal
        decision == p.proposed_issuance_approval.decision
    IN IF decision = "approve_lease_licence" /\ p.generated_proposal = "None"
       THEN Outcome("ok",
              [s EXCEPT !.proposal.generated_proposal = GENERATED,
                        !.proposal.processing_status =
                            PROCESSING_STATUS_APPROVED_APPLICATION])
       ELSE IF decision = "approve_competitive_process"
               /\ p.generated_proposal = "None"
       THEN LET o1 == generate_competitive_process(s)
            IN IF o1.err # "ok" THEN o1
               ELSE Outcome("ok",
                      [o1.st EXCEPT !.proposal.processing_status =
                           PROCESSING_STATUS_APPROVED_COMPETITIVE_PROCESS])
       ELSE Outcome("ok", s)

\* final_approval, Lease Licence (New)
ApproveLeaseLicence(s, env) ==
    LET i == ApprovalFor(s.approvals, THIS)
        s1 == [s EXCEPT !.approvals = update_or_create(@, THIS, THIS)]
        o2 == generate_license_documents(s1, i, env)
    IN IF o2.err # "ok" THEN o2
       ELSE LET s3 == [o2.st EXCEPT !.proposal.approval = i]
                o4 == generate_invoicing_details(s3)
            IN IF o4.err # "ok" THEN o4
               ELSE Outcome("ok",
                      [o4.st EXCEPT !.proposal.processing_status =
                           PROCESSING_STATUS_APPROVED_EDITING_INVOICING])

\* the branch of final_approval for a (proposal_type, application_type)
IssueApproval(s, user, env) ==
    LET p == s.proposal
    IN IF /\ p.proposal_type = PROPOSAL_TYPE_RENEWAL
          /\ p.application_type = APPLICATION_TYPE_LEASE_LICENCE
       THEN ApproveRenewal(s, user, env)
       ELSE IF /\ p.proposal_type = PROPOSAL_TYPE_AMENDMENT
               /\ p.application_type = APPLICATION_TYPE_LEASE_LICENCE
       THEN ApproveAmendment(s)
       ELSE IF p.proposal_type = PROPOSAL_TYPE_NEW
       THEN LET o1 ==
                  IF p.application_type = APPLICATION_TYPE_REGISTRATION_OF_INTEREST
                  THEN ApproveRegistrationOfInterest(s)
                  ELSE IF p.application_type = APPLICATION_TYPE_LEASE_LICENCE
                  THEN ApproveLeaseLicence(s, env)
                  ELSE Outcome("ok", s)
            IN IF o1.err # "ok" THEN o1
               ELSE Outcome("ok", [o1.st EXCEPT !.proposal.approved_by = user])
       ELSE Outcome("ValidationError: not supported for approval issuance", s)

NoApprovalChecks(s, user, env) == "ok"

\* the checks final_approval makes unless the proposal is an amendment
ApprovalChecks(s, user, env) ==
    IF s.proposal.proposal_type = PROPOSAL_TYPE_AMENDMENT THEN "ok"
    ELSE IF ~can_assess(s.proposal, user) THEN "ProposalNotAuthorized"
    ELSE IF s.proposal.processing_status # PROCESSING_STATUS_WITH_APPROVER
    THEN "ValidationError: not with an approver"
    ELSE IF ~env.address THEN "ValidationError: no postal address"
    ELSE "ok"

final_approval(s, user, d, env) ==
    IF ~s.proposal.proposed_issuance_approval.stored
    THEN Outcome("AttributeError", s)
    ELSE IF ApprovalChecks(s, user, env) # "ok"
    THEN Outcome(ApprovalChecks(s, user, env), s)
    ELSE LET o1 == store_proposed_approval_data(s, user, d, env)
         IN IF o1.err # "ok" THEN o1
            ELSE IssueApproval(log_user_action(o1.st), user, env)

\* ------------------------------------------------- decline, hold, reissue
\* Proposal.final_decline, before its transaction ends
final_decline(s, user) ==
    IF ~can_assess(s.proposal, user) THEN Outcome("ProposalNotAuthorized", s)
    ELSE IF s.proposal.processing_status # PROCESSING_STATUS_WITH_APPROVER
    THEN Outcome("ValidationError: not with approver", s)
    ELSE Outcome("ok", log_user_action(
             [s EXCEPT !.proposal.processing_status =
                           PROCESSING_STATUS_DECLINED]))

\* the checks of on_hold and with_qaofficer
CanSuspend(s, user) ==
    IF ~can_assess(s.proposal, user) THEN "ProposalNotAuthorized"
    ELSE IF s.proposal.processing_status
               \notin {"with_assessor", "with_referral"}
    THEN "ValidationError: not with assessor or with referral"
    ELSE "ok"

\* Proposal.on_hold, before its transaction ends. The status to set is
\* read from self.PROCESSING_STATUS_ONHOLD, which Proposal does not
\* declare: the read raises AttributeError after prev_processing_status is
\* assigned and before anything is saved
on_hold(s, user) ==
    IF CanSuspend(s, user) # "ok" THEN Outcome(CanSuspend(s, user), s)
    ELSE Outcome("AttributeError",
             [s EXCEPT !.proposal.prev_processing_status =
                           s.proposal.processing_status])

\* Proposal.on_hold_remove, before its transaction ends: the read of
\* self.PROCESSING_STATUS_ONHOLD raises after the status is assigned
on_hold_remove(s, user) ==
    IF ~can_assess(s.proposal, user) THEN Outcome("ProposalNotAuthorized", s)
    ELSE IF s.proposal.processing_status # "on_hold"
    THEN Outcome("ValidationError: not on hold", s)
    ELSE Outcome("AttributeError",
             [s EXCEPT !.proposal.processing_status =
                           s.proposal.prev_processing_status])

\* Proposal.with_qaofficer, before its transaction ends:
\* self.PROCESSING_STATUS_WITH_QA_OFFICER is not declared either
with_qaofficer(s, user) ==
    IF CanSuspend(s, user) # "ok" THEN Outcome(CanSuspend(s, user), s)
    ELSE Outcome("AttributeError",
             [s EXCEPT !.proposal.prev_processing_status =
                           s.proposal.processing_status])

\* Proposal.with_qaofficer_completed, before its transaction ends
with_qaofficer_completed(s, user) ==
    IF ~can_assess(s.proposal, user) THEN Outcome("ProposalNotAuthorized", s)
    ELSE IF s.proposal.processing_status # "with_qa_officer"
    THEN Outcome("ValidationError: not with QA officer", s)
    ELSE Outcome("AttributeError",
             [s EXCEPT !.proposal.processing_status =
                           s.proposal.prev_processing_status])

\* Proposal.reissue_approval; can_reissue is Approval.can_reissue
reissue_approval(s, can_reissue) ==
    IF s.proposal.processing_status # PROCESSING_STATUS_APPROVED
    THEN Outcome("ValidationError: not approved", s)
    ELSE IF s.proposal.approval = 0
    THEN Outcome("ValidationError: no approval attached", s)
    ELSE IF ~can_reissue
    THEN Outcome("ValidationError: cannot reissue", s)
    ELSE Outcome("ok", [s EXCEPT !.proposal.processing_status =
                                     PROCESSING_STATUS_WITH_APPROVER])

\* AmendmentRequest.generate_amendment, before its transaction ends;
\* requested tells whether the request's status is requested
generate_amendment(s, user, requested) ==
    IF ~can_assess(s.proposal, user) THEN Outcome("ProposalNotAuthorized", s)
    ELSE IF ~requested THEN Outcome("ok", s)
    ELSE Outcome("ok", log_user_action(
             [s EXCEPT !.proposal.processing_status =
                           PROCESSING_STATUS_DRAFT]))

\* ------------------------------------------------------------ invoice ledger
\* money is counted in tenths of a cent, so that a value with three decimal
\* places can be told from one with two
\* an aggregate is the empty tuple (SQL NULL) or a tuple holding its value
NULL == <<>>

RECURSIVE SumOf(_, _)
SumOf(txs, field) ==
    IF txs = <<>> THEN 0 ELSE Head(txs)[field] + SumOf(Tail(txs), field)

\* models.Sum over the invoice's transactions: NULL when there is no row
Sum(txs, field) == IF txs = <<>> THEN NULL ELSE <<SumOf(txs, field)>>

Coalesce(v, default) == IF v = NULL THEN default ELSE v[1]

\* Decimal.quantize(Decimal("0.01")): the nearest cent, a tie to the even one
quantize(x) ==
    LET lower == (x \div 10) * 10
        rest == x - lower
    IN IF rest < 5 THEN lower
       ELSE IF rest > 5 THEN lower + 10
       ELSE IF (lower \div 10) % 2 = 0 THEN lower ELSE lower + 10

\* the sign convention of InvoiceTransactionManager: debits less credits
DebitsLessCredits(inv, txs) ==
    LET credit == Coalesce(Sum(txs, "credit"), 0)
        debit == Coalesce(Sum(txs, "debit"), 0)
    IN quantize(inv.amount + debit - credit)

\* Invoice.balance
balance(inv, txs) ==
    LET credit == Coalesce(Sum(txs, "credit"), 0)
        debit == Coalesce(Sum(txs, "debit"), 0)
    IN quantize(inv.amount + credit - debit)

\* DecimalField(max_digits=9, decimal_places=2) of InvoiceTransactionSerializer
ValidDecimal(x) == x % 10 = 0

\* every user passes for a finance officer
EveryoneIsFinanceOfficer(user) == TRUE

is_finance_officer(user) == user \in FinanceGroup

INVOICE_STATUS_UNPAID == "unpaid"
INVOICE_STATUS_PAID == "paid"

\* an invoice as Proposal.finance_complete_editing creates it: no status,
\* issued on day 1 (auto_now_add), the other columns NULL
InitInvoiceRow(amount) ==
    [amount |-> amount, status |-> "None", date_issued |-> 1, date_due |-> 0,
     oracle_invoice_number |-> 0, invoice_reference |-> 0]

\* what a view of the invoice ledger answers and leaves in the database
InvoiceOutcome(e, inv, txs) == [err |-> e, invoice |-> inv, transactions |-> txs]

\* the status is left as it is whatever the balance
StatusKept(inv, txs) == inv

\* record_transaction: an invoice with a balance of 0.00 is marked paid
PaidAtZeroBalance(inv, txs) ==
    IF 0 = balance(inv, txs)
    THEN [inv EXCEPT !.status = INVOICE_STATUS_PAID] ELSE inv

\* InvoiceViewSet.record_transaction
record_transaction(inv, txs, user, credit, debit) ==
    IF ~is_finance_officer(user)
    THEN InvoiceOutcome("no permission", inv, txs)
    ELSE IF ~ValidDecimal(credit) \/ ~ValidDecimal(debit)
    THEN InvoiceOutcome("400", inv, txs)
    ELSE LET txs1 == Append(txs, [credit |-> credit, debit |-> debit])
         IN InvoiceOutcome("ok", PaidAtZeroBalance(inv, txs1), txs1)

\* days between the upload of the Oracle invoice and the day payment is due
DEFAULT_DAYS_BEFORE_PAYMENT_DUE == 30

\* InvoiceEditOracleInvoiceNumberSerializer.save: the status, the two dates
\* and the Oracle invoice number of the request are written to the row
InvoiceEditOracleInvoiceNumberSerializer(inv, data) ==
    [inv EXCEPT !.status = data.status,
                !.date_issued = data.date_issued,
                !.date_due = data.date_due,
                !.oracle_invoice_number = data.oracle_invoice_number]

\* what the calls to the payment gateway come to: a future invoice, an
\* organisation without an active admin contact (no call is made), an
\* answer whose status is not 200, or an exception raised by the client
GatewayOutcomes == {"created", "no admin contact", "status not 200", "raises"}

\* an exception leaves the atomic block of a view of the ledger: its writes
\* are rolled back; a view that returns commits them
InvoiceAtomic(inv, txs, out) ==
    IF out.err = "raises" THEN InvoiceOutcome(out.err, inv, txs) ELSE out

\* InvoiceViewSet.upload_oracle_invoice, before its transaction ends
upload_oracle_invoice(inv, txs, user, now, number, is_valid, gateway) ==
    IF ~is_finance_officer(user)
    THEN InvoiceOutcome("no permission", inv, txs)
    ELSE LET date_issued == now
             date_due == date_issued + DEFAULT_DAYS_BEFORE_PAYMENT_DUE
             data == [status |-> INVOICE_STATUS_UNPAID,
                      date_issued |-> date_issued,
                      date_due |-> date_due,
                      oracle_invoice_number |-> number]
             saved == InvoiceEditOracleInvoiceNumberSerializer(inv, data)
         IN IF ~is_valid THEN InvoiceOutcome("400", inv, txs)
            ELSE IF gateway = "no admin contact"
            THEN InvoiceOutcome("None", saved, txs)
            ELSE IF gateway = "raises"
            THEN InvoiceOutcome("raises", saved, txs)
            ELSE IF gateway = "status not 200"
            THEN InvoiceOutcome("None", saved, txs)
            ELSE InvoiceOutcome("ok", [saved EXCEPT !.invoice_reference = 1],
                                txs)

\* PayInvoiceSuccessCallbackView.get; the date_paid it sets is an attribute
\* of the object, Invoice has no such column
pay_invoice_success(inv, txs, uuid) ==
    IF uuid /\ inv.status = INVOICE_STATUS_UNPAID
    THEN InvoiceOutcome("200",
                        [inv EXCEPT !.status = INVOICE_STATUS_PAID],
                        Append(txs, [credit |-> 0, debit |-> inv.amount]))
    ELSE InvoiceOutcome("400", inv, txs)

\* ------------------------------------------------- renewals and amendments
\* a date string "%Y-%m-%d" is the tuple of its year, month and day; a
\* datetime is the proleptic Gregorian ordinal of its day (day 1 is
\* 0001-01-01), so that a timedelta is a difference of ordinals
IsLeap(y) == (y % 4 = 0 /\ y % 100 # 0) \/ y % 400 = 0

DaysInMonth(y, m) ==
    IF m = 2 THEN (IF IsLeap(y) THEN 29 ELSE 28)
    ELSE IF m \in {4, 6, 9, 11} THEN 30 ELSE 31

DaysBeforeYear(y) ==
    LET n == y - 1 IN n * 365 + (n \div 4) - (n \div 100) + (n \div 400)

RECURSIVE DaysBeforeMonth(_, _)
DaysBeforeMonth(y, m) ==
    IF m = 1 THEN 0 ELSE DaysBeforeMonth(y, m - 1) + DaysInMonth(y, m - 1)

\* datetime.datetime.strptime(s, "%Y-%m-%d")
strptime(s) == DaysBeforeYear(s[1]) + DaysBeforeMonth(s[1], s[2]) + s[3]

\* datetime.strftime("%Y-%m-%d")
strftime(n) ==
    LET y == CHOOSE y \in (n \div 366)..(n \div 365 + 1) :
                 DaysBeforeYear(y) < n /\ n <= DaysBeforeYear(y + 1)
        r == n - DaysBeforeYear(y)
        m == CHOOSE m \in 1..12 :
                 /\ DaysBeforeMonth(y, m) < r
                 /\ r <= DaysBeforeMonth(y, m) + DaysInMonth(y, m)
    IN <<y, m, r - DaysBeforeMonth(y, m)>>

\* the renewal starts on the day the original expires
RenewalFromExpiry(period) ==
    LET original_start_date == strptime(period.start_date)
        original_expiry_date == strptime(period.expiry_date)
    IN [start_date |-> strftime(original_expiry_date),
        expiry_date |-> strftime(original_expiry_date
                          + (original_expiry_date - original_start_date))]

\* renew_approval: the start and the expiry date proposed for the renewal
RenewalPeriod(period) ==
    LET original_start_date == strptime(period.start_date)
        original_expiry_date == strptime(period.expiry_date)
    IN [start_date |-> strftime(original_expiry_date + 1),
        expiry_date |-> strftime(original_expiry_date
                          + (original_expiry_date - original_start_date))]

\* the proposal was approved without dates
NoPeriod == [start_date |-> NULL, expiry_date |-> NULL]

\* the rows renew_approval and amend_approval read and write
Lineage == [st |-> Store, issued |-> issued, children |-> children]

\* Proposal rows with previous_application = the proposal and
\* processing_status with_assessor
WithAssessor(kids) ==
    {i \in DOMAIN kids :
        kids[i].processing_status = PROCESSING_STATUS_WITH_ASSESSOR}

RECURSIVE NotDeleted(_)
NotDeleted(reqs) ==
    IF reqs = <<>> THEN 0
    ELSE (IF Head(reqs).is_deleted THEN 0 ELSE 1) + NotDeleted(Tail(reqs))

\* clone_proposal_with_status_reset: a draft lease_licence proposal with
\* previous_application set; then the copies made by renew_approval
RenewalOf(r) ==
    [proposal_type |-> PROPOSAL_TYPE_RENEWAL,
     application_type |-> APPLICATION_TYPE_LEASE_LICENCE,
     processing_status |-> PROCESSING_STATUS_DRAFT,
     proposed_issuance_approval |-> RenewalPeriod(r.issued),
     geometries |-> Len(r.st.geometries),
     requirements |-> NotDeleted(r.st.requirements)]

\* Proposal.renew_approval, before its transaction ends
renew_approval(r) ==
    IF Cardinality(WithAssessor(r.children)) = 1
    THEN Outcome("ValidationError: already lodged", r)
    ELSE IF Cardinality(WithAssessor(r.children)) > 1
    THEN Outcome("MultipleObjectsReturned", r)
    ELSE Outcome("ok", [r EXCEPT !.children = Append(@, RenewalOf(r)),
                                 !.st = log_user_action(@)])

\* Proposal.amend_approval: the lookup compares the proposal_type foreign
\* key with the string "amendment", which is no ProposalType id
amend_approval(r) == Outcome("ValueError", r)

\* ------------------------------------------------------- invoicing details
CHARGE_METHOD_NO_RENT_OR_LICENCE_CHARGE == "no_rent_or_licence_charge"
CHARGE_METHOD_ONCE_OFF_CHARGE == "once_off_charge"
CHARGE_METHOD_BASE_FEE_PLUS_FIXED_ANNUAL_INCREMENT ==
    "base_fee_plus_fixed_annual_increment"
CHARGE_METHOD_PERCENTAGE_OF_GROSS_TURNOVER_IN_ARREARS ==
    "percentage_of_gross_turnover"
CHARGE_METHOD_PERCENTAGE_OF_GROSS_TURNOVER_IN_ADVANCE ==
    "percentage_of_gross_turnover_in_advance"

REPETITION_TYPE_ANNUALLY == "annually"
REPETITION_TYPE_QUARTERLY == "quarterly"
REPETITION_TYPE_MONTHLY == "monthly"

\* the InvoicingDetails row as generate_invoicing_details creates it
NoInvoicing == [charge_method |-> "None", invoicing_repetition_type |-> "None",
                once_off_charge_amount |-> NULL]

\* the rows finance_complete_editing reads and writes
Books == [st |-> Store, invoicing |-> invoicing, invoices |-> invoices]

\* InvoicingDetailsSerializer.save: the charge method, the repetition type
\* and the once-off amount of the request are written to the row
InvoicingDetailsSerializer(row, data) ==
    [row EXCEPT !.charge_method = data.charge_method,
                !.invoicing_repetition_type = data.invoicing_repetition_type,
                !.once_off_charge_amount = data.once_off_charge_amount]

\* Proposal.save_invoicing_details
save_invoicing_details(b, data) ==
    IF ~data.found
    THEN Outcome("ValidationError: invoicing details not found", b)
    ELSE IF ~data.is_valid
    THEN Outcome("ValidationError: invalid invoicing details", b)
    ELSE Outcome("ok", [b EXCEPT !.invoicing =
                                   InvoicingDetailsSerializer(@, data)])

\* Proposal.finance_complete_editing, before its transaction ends.
\* generate_gross_turnover_requirements takes no argument and is called
\* with two: the call raises TypeError. The invoices and the schedule of the
\* remaining charge methods are rows of InvoicingDetails, not kept here
finance_complete_editing(b, data) ==
    LET b1 == [b EXCEPT !.st.proposal.processing_status =
                            PROCESSING_STATUS_APPROVED]
        o2 == save_invoicing_details(b1, data)
        b2 == o2.st
        amount == b2.invoicing.once_off_charge_amount
    IN IF o2.err # "ok" THEN o2
       ELSE IF b2.invoicing.charge_method
               = CHARGE_METHOD_NO_RENT_OR_LICENCE_CHARGE
       THEN Outcome("ok", b2)
       ELSE IF b2.invoicing.charge_method = CHARGE_METHOD_ONCE_OFF_CHARGE
       THEN IF amount = NULL \/ amount[1] = 0 \/ amount[1] <= 0
            THEN Outcome("ValidationError: invalid invoice amount", b2)
            ELSE Outcome("ok", [b2 EXCEPT !.invoices =
                                    Append(@, InitInvoiceRow(amount[1]))])
       ELSE IF b2.invoicing.charge_method \in
                 {CHARGE_METHOD_PERCENTAGE_OF_GROSS_TURNOVER_IN_ARREARS,
                  CHARGE_METHOD_PERCENTAGE_OF_GROSS_TURNOVER_IN_ADVANCE}
       THEN Outcome("TypeError", b2)
       ELSE Outcome("ok", b2)

\* the assignment finance_cancel_editing is written to make
CancelToCurrent(st) ==
    Outcome("ok", [st EXCEPT !.proposal.processing_status = "current"])

\* Proposal.finance_cancel_editing: Proposal declares no
\* PROCESSING_STATUS_CURRENT, reading it raises AttributeError before
\* anything is assigned
finance_cancel_editing(st) == Outcome("AttributeError", st)

\* ---------------------------------------------- gross turnover requirements
\* ids of the ProposalStandardRequirement rows with the codes of the annual,
\* quarterly and monthly financial statement
INVOICING_PERCENTAGE_GROSS_TURNOVER_ANNUALLY == 3
INVOICING_PERCENTAGE_GROSS_TURNOVER_QUARTERLY == 4
INVOICING_PERCENTAGE_GROSS_TURNOVER_MONTHLY == 5

\* ProposalStandardRequirement rows with gross_turnover_required=True
GrossTurnoverRequired ==
    {INVOICING_PERCENTAGE_GROSS_TURNOVER_ANNUALLY,
     INVOICING_PERCENTAGE_GROSS_TURNOVER_QUARTERLY,
     INVOICING_PERCENTAGE_GROSS_TURNOVER_MONTHLY}

GrossTurnoverMethods ==
    {CHARGE_METHOD_PERCENTAGE_OF_GROSS_TURNOVER_IN_ARREARS,
     CHARGE_METHOD_PERCENTAGE_OF_GROSS_TURNOVER_IN_ADVANCE}

\* the first due date of a financial statement, worked out from the start
\* date of the approval: a date (not NULL, which is 0), the same at every run
first_due_date(std) == 1

\* rows of the filter with standard_requirement in stds
WithStandard(reqs, stds) ==
    {i \in DOMAIN reqs : reqs[i].standard_requirement \in stds}

\* filter(...).update(is_deleted=True)
MarkDeleted(reqs, rows) ==
    [i \in DOMAIN reqs |->
        IF i \in rows THEN [reqs[i] EXCEPT !.is_deleted = TRUE] ELSE reqs[i]]

\* objects.get_or_create: the row of the lookup, a new row when there is
\* none, MultipleObjectsReturned when there are several
get_or_create(reqs, found, new) ==
    IF found = {}
    THEN [err |-> "ok", reqs |-> Append(reqs, new), row |-> Len(reqs) + 1,
          created |-> TRUE]
    ELSE IF Cardinality(found) = 1
    THEN [err |-> "ok", reqs |-> reqs, row |-> CHOOSE i \in found : TRUE,
          created |-> FALSE]
    ELSE [err |-> "MultipleObjectsReturned", reqs |-> reqs, row |-> 0,
          created |-> FALSE]

\* get_or_create(proposal=self, standard_requirement=std, due_date=...,
\* reminder_date=..., recurrence=True, ...) of
\* generate_gross_turnover_requirements
CreateWithDueDate(reqs, std) ==
    get_or_create(reqs,
        {i \in WithStandard(reqs, {std}) :
            reqs[i].due_date = first_due_date(std)},
        [NewRequirement(reqs, std) EXCEPT !.due_date = first_due_date(std)])

\* the quarterly or monthly statement of generate_gross_turnover_requirements
\* and the removal of the statements of the other repetition type
GenerateStatement(reqs, std, other) ==
    LET g == CreateWithDueDate(reqs, std)
    IN IF g.err # "ok" THEN Outcome(g.err, reqs)
       ELSE Outcome("ok", MarkDeleted(g.reqs, WithStandard(g.reqs, {other})))

\* Proposal.generate_gross_turnover_requirements
generate_gross_turnover_requirements(reqs, inv) ==
    LET a == CreateWithDueDate(reqs,
                 INVOICING_PERCENTAGE_GROSS_TURNOVER_ANNUALLY)
        q == IF inv.invoicing_repetition_type = REPETITION_TYPE_QUARTERLY
             THEN GenerateStatement(a.reqs,
                      INVOICING_PERCENTAGE_GROSS_TURNOVER_QUARTERLY,
                      INVOICING_PERCENTAGE_GROSS_TURNOVER_MONTHLY)
             ELSE Outcome("ok", a.reqs)
    IN IF a.err # "ok" THEN Outcome(a.err, reqs)
       ELSE IF inv.charge_method
               = CHARGE_METHOD_PERCENTAGE_OF_GROSS_TURNOVER_IN_ADVANCE
       THEN Outcome("ok", a.reqs)
       ELSE IF q.err # "ok" THEN q
       ELSE IF inv.invoicing_repetition_type = REPETITION_TYPE_MONTHLY
       THEN GenerateStatement(q.st,
                INVOICING_PERCENTAGE_GROSS_TURNOVER_MONTHLY,
                INVOICING_PERCENTAGE_GROSS_TURNOVER_QUARTERLY)
       ELSE q

\* update_gross_turnover_requirements for a repetition type: the statements
\* of the other type are deleted, the statement of the type is created, or
\* restored when it exists
UpdateStatement(reqs, std, other) ==
    LET r == MarkDeleted(reqs, {i \in WithStandard(reqs, {other}) :
                                   ~reqs[i].is_deleted})
        g == get_or_create(r, WithStandard(r, {std}), NewRequirement(r, std))
    IN IF g.err # "ok" THEN Outcome(g.err, r)
       ELSE IF g.created THEN Outcome("ok", g.reqs)
       ELSE Outcome("ok", [g.reqs EXCEPT ![g.row].is_deleted = FALSE])

\* the annual statement of update_gross_turnover_requirements
UpdateAnnual(reqs) ==
    LET std == INVOICING_PERCENTAGE_GROSS_TURNOVER_ANNUALLY
        g == get_or_create(reqs,
                 {i \in WithStandard(reqs, {std}) : ~reqs[i].is_deleted},
                 NewRequirement(reqs, std))
    IN IF g.err # "ok" THEN Outcome(g.err, reqs)
       ELSE Outcome("ok", [g.reqs EXCEPT ![g.row].due_date =
                                             first_due_date(std)])

\* Proposal.update_gross_turnover_requirements
update_gross_turnover_requirements(reqs, inv) ==
    LET r1 == IF inv.charge_method
                 = CHARGE_METHOD_PERCENTAGE_OF_GROSS_TURNOVER_IN_ADVANCE
              THEN Outcome("ok", MarkDeleted(reqs, WithStandard(reqs,
                       {INVOICING_PERCENTAGE_GROSS_TURNOVER_MONTHLY,
                        INVOICING_PERCENTAGE_GROSS_TURNOVER_QUARTERLY})))
              ELSE IF inv.invoicing_repetition_type
                      = REPETITION_TYPE_QUARTERLY
              THEN UpdateStatement(reqs,
                       INVOICING_PERCENTAGE_GROSS_TURNOVER_QUARTERLY,
                       INVOICING_PERCENTAGE_GROSS_TURNOVER_MONTHLY)
              ELSE IF inv.invoicing_repetition_type = REPETITION_TYPE_MONTHLY
              THEN UpdateStatement(reqs,
                       INVOICING_PERCENTAGE_GROSS_TURNOVER_MONTHLY,
                       INVOICING_PERCENTAGE_GROSS_TURNOVER_QUARTERLY)
              ELSE Outcome("ok", reqs)
    IN IF inv.charge_method = "None" THEN Outcome("AttributeError", reqs)
       ELSE IF inv.charge_method \notin GrossTurnoverMethods
       THEN Outcome("ok", MarkDeleted(reqs,
                              WithStandard(reqs, GrossTurnoverRequired)))
       ELSE IF r1.err # "ok" THEN r1
       ELSE UpdateAnnual(r1.st)

\* what update_gross_turnover_requirements does to the rows of the other
\* proposals: the update of the monthly and quarterly rows, for the method
\* in advance, filters ProposalRequirement by the code of the standard
\* requirement alone; every other query names the proposal
UpdateElsewhere(reqs, other, inv) ==
    IF /\ update_gross_turnover_requirements(reqs, inv).err = "ok"
       /\ inv.charge_method
              = CHARGE_METHOD_PERCENTAGE_OF_GROSS_TURNOVER_IN_ADVANCE
    THEN MarkDeleted(other, WithStandard(other,
             {INVOICING_PERCENTAGE_GROSS_TURNOVER_MONTHLY,
              INVOICING_PERCENTAGE_GROSS_TURNOVER_QUARTERLY}))
    ELSE other

\* ------------------------------------------------------------ compliances
COMPLIANCE_STATUS_FUTURE == "future"
COMPLIANCE_STATUS_DUE == "due"
COMPLIANCE_STATUS_DISCARDED == "discarded"

\* what generate_compliances reads and writes: the proposal with its
\* requirements, the dates of the approval, the invoicing details and the
\* Compliance rows
Obligations == [st |-> Store, issued |-> issued, invoicing |-> invoicing,
                compliances |-> compliances]

\* a requirement with a due date (<<year, month, day>>, or NULL) and a
\* recurrence
DatedRequirement(std, due, recurs, pattern, schedule, copied, deleted) ==
    [standard_requirement |-> std, due_date |-> due, is_deleted |-> deleted,
     req_order |-> 1, recurrence |-> recurs, recurrence_pattern |-> pattern,
     recurrence_schedule |-> schedule, copied_from |-> copied]

\* Compliance.objects.create(proposal=self, due_date, processing_status,
\* approval, requirement)
NewCompliance(req, due) ==
    [proposal |-> THIS, approval |-> THIS, requirement |-> req,
     due_date |-> due, processing_status |-> COMPLIANCE_STATUS_FUTURE,
     reminder_sent |-> FALSE]

\* date a < date b, for dates <<year, month, day>>
Before(a, b) ==
    \/ a[1] < b[1]
    \/ a[1] = b[1] /\ a[2] < b[2]
    \/ a[1] = b[1] /\ a[2] = b[2] /\ a[3] < b[3]

\* current_date += relativedelta(weeks=1) / relativedelta(month=1) /
\* relativedelta(years=1), recurrence_schedule times: weeks and years are
\* added, month=1 SETS the month to January
RECURSIVE Advance(_, _, _)
Advance(date, pattern, times) ==
    LET y == date[1]
        m == date[2]
        d == date[3]
        over == d + 7 - DaysInMonth(y, m)
        step == IF pattern = 1
                THEN (IF over <= 0 THEN <<y, m, d + 7>>
                      ELSE IF m < 12 THEN <<y, m + 1, over>>
                      ELSE <<y + 1, 1, over>>)
                ELSE IF pattern = 2 THEN <<y, 1, d>>
                ELSE IF pattern = 3
                THEN <<y + 1, m, IF d > DaysInMonth(y + 1, m)
                                 THEN DaysInMonth(y + 1, m) ELSE d>>
                ELSE date
    IN IF times <= 0 THEN date ELSE Advance(step, pattern, times - 1)

\* Compliance.objects.get(requirement=req, due_date=current_date), and
\* create when it does not exist
GetOrCreateCompliance(comps, req, due) ==
    get_or_create(comps,
        {i \in DOMAIN comps : comps[i].requirement = req
                              /\ comps[i].due_date = due},
        NewCompliance(req, due))

\* the while loop of a recurring requirement: it never ends when the date
\* does not advance
RECURSIVE Recurring(_, _, _, _, _)
Recurring(comps, req, row, current_date, expiry_date) ==
    LET next == Advance(current_date, row.recurrence_pattern,
                        row.recurrence_schedule)
        g == IF ~Before(expiry_date, next)
             THEN GetOrCreateCompliance(comps, req, next)
             ELSE [err |-> "ok", reqs |-> comps]
    IN IF ~Before(current_date, expiry_date) THEN Outcome("ok", comps)
       ELSE IF g.err # "ok" THEN Outcome(g.err, comps)
       ELSE IF ~Before(current_date, next)
       THEN Outcome("never returns", g.reqs)
       ELSE Recurring(g.reqs, req, row, next, expiry_date)

\* self.proposal_type == PROPOSAL_TYPE_AMENDMENT in generate_compliances: a
\* ProposalType row is compared with a str, Model.__eq__ answers
\* NotImplemented and the two are never equal
ProposalTypeIs(p, code) == FALSE

\* generate_compliances, the block for an amendment: the due compliances of
\* the requirements the new ones were copied from
RepointCompliances(ob) ==
    LET reqs == ob.st.requirements
        from(c) == {i \in DOMAIN reqs : reqs[i].copied_from # 0
                                        /\ reqs[i].copied_from = c.requirement}
        \* the requirements are visited in order: the first one copied from
        \* the requirement of c takes it
        by(c) == CHOOSE i \in from(c) : \A j \in from(c) : i <= j
        move(c) ==
            IF c.proposal # PREVIOUS
               \/ c.processing_status # COMPLIANCE_STATUS_DUE
               \/ from(c) = {}
            THEN c
            ELSE IF reqs[by(c)].is_deleted
            THEN [c EXCEPT !.processing_status = COMPLIANCE_STATUS_DISCARDED,
                           !.reminder_sent = TRUE]
            ELSE [c EXCEPT !.proposal = THIS, !.approval = THIS,
                           !.requirement = by(c)]
    IN [k \in DOMAIN ob.compliances |-> move(ob.compliances[k])]

\* invoicing_utils.financial_years_included_in_range,
\* financial_quarters_included_in_range, financial_months_included_in_range
\* and month_from_quarter, with the due date generate_gross_turnover_compliances
\* works out for each period: the financial year runs from July to June and a
\* period is named by the year the financial year ends in
FinancialDueDates(std, period) ==
    LET first == period.start_date[1] * 12 + period.start_date[2] - 1
        last_ == period.expiry_date[1] * 12 + period.expiry_date[2] - 1
        ends(k) == IF k % 12 >= 6 THEN (k \div 12) + 1 ELSE k \div 12
        quarter(k) == ((k + 6) % 12) \div 3
        plus(y, m, n) == <<y + ((m - 1 + n) \div 12),
                           ((m - 1 + n) % 12) + 1, 1>>
    IN IF std = INVOICING_PERCENTAGE_GROSS_TURNOVER_ANNUALLY
       THEN {<<ends(k), 10, 31>> : k \in first..last_}
       ELSE IF std = INVOICING_PERCENTAGE_GROSS_TURNOVER_QUARTERLY
       THEN {plus(ends(k), ((quarter(k) * 3 + 6) % 12) + 1, 4) :
                k \in first..last_}
       ELSE {plus(ends(k), (k % 12) + 1, 2) : k \in first..last_}

\* the compliances created for the due dates todo, earliest first
RECURSIVE Created(_, _)
Created(req, todo) ==
    IF todo = {} THEN <<>>
    ELSE LET due == CHOOSE d \in todo : \A e \in todo : ~Before(e, d)
         IN <<NewCompliance(req, due)>> \o Created(req, todo \ {due})

\* generate_gross_turnover_compliances for one standard requirement:
\* get_or_create(proposal, approval, requirement, due_date,
\* processing_status=future) for each of its periods
GrossTurnoverCompliances(ob, std) ==
    LET reqs == ob.st.requirements
        comps == ob.compliances
        found == {i \in WithStandard(reqs, {std}) : ~reqs[i].is_deleted}
        req == CHOOSE i \in found : TRUE
        dues == FinancialDueDates(std, ob.issued)
        rows(due) == {k \in DOMAIN comps :
                         /\ comps[k].proposal = THIS
                         /\ comps[k].requirement = req
                         /\ comps[k].due_date = due
                         /\ comps[k].processing_status
                                = COMPLIANCE_STATUS_FUTURE}
    IN IF Cardinality(found) > 1
       THEN Outcome("MultipleObjectsReturned", comps)
       ELSE IF found = {} THEN Outcome("DoesNotExist", comps)
       ELSE IF \E due \in dues : Cardinality(rows(due)) > 1
       THEN Outcome("MultipleObjectsReturned", comps)
       ELSE Outcome("ok",
                    comps \o Created(req, {due \in dues : rows(due) = {}}))

\* .filter(proposal=self, requirement__standard_requirement__code=std,
\* due_date__gt=today, processing_status=future).delete()
DeleteFuture(ob, comps, std, today) ==
    SelectSeq(comps, LAMBDA c :
        ~(/\ c.proposal = THIS
          /\ c.requirement \in WithStandard(ob.st.requirements, {std})
          /\ Before(today, c.due_date)
          /\ c.processing_status = COMPLIANCE_STATUS_FUTURE))

\* Proposal.generate_gross_turnover_compliances
generate_gross_turnover_compliances(ob, today) ==
    LET reqs == ob.st.requirements
        annual == GrossTurnoverCompliances(ob,
                      INVOICING_PERCENTAGE_GROSS_TURNOVER_ANNUALLY)
        \* the annual requirement that is not found is a warning, and an
        \* unbound name as soon as there is a financial year
        after == IF annual.err = "DoesNotExist"
                 THEN Outcome("UnboundLocalError", ob.compliances)
                 ELSE annual
        cadence(comps, std, other) ==
            LET g == GrossTurnoverCompliances(
                         [ob EXCEPT !.compliances = comps], std)
            IN IF g.err = "MultipleObjectsReturned" THEN g
               ELSE Outcome("ok", DeleteFuture(ob, g.st, other, today))
        repetition == ob.invoicing.invoicing_repetition_type
    IN IF WithStandard(reqs, GrossTurnoverRequired)
              \cap {i \in DOMAIN reqs : ~reqs[i].is_deleted} = {}
       THEN Outcome("ok", ob.compliances)
       ELSE IF after.err # "ok" THEN after
       ELSE IF repetition = "None"
       THEN Outcome("AttributeError", after.st)
       ELSE IF repetition = REPETITION_TYPE_QUARTERLY
       THEN cadence(after.st, INVOICING_PERCENTAGE_GROSS_TURNOVER_QUARTERLY,
                    INVOICING_PERCENTAGE_GROSS_TURNOVER_MONTHLY)
       ELSE IF repetition = REPETITION_TYPE_MONTHLY
       THEN cadence(after.st, INVOICING_PERCENTAGE_GROSS_TURNOVER_MONTHLY,
                    INVOICING_PERCENTAGE_GROSS_TURNOVER_QUARTERLY)
       ELSE after

\* generate_compliances, for req in requirements, from requirement i on
RECURSIVE EachRequirement(_, _, _, _)
EachRequirement(ob, today, comps, i) ==
    LET reqs == ob.st.requirements
        req == reqs[i]
        first == GetOrCreateCompliance(comps, i, req.due_date)
        all == IF first.err # "ok" THEN Outcome(first.err, comps)
               ELSE IF req.recurrence
               THEN Recurring(first.reqs, i, req, req.due_date,
                              ob.issued.expiry_date)
               ELSE Outcome("ok", first.reqs)
    IN IF i > Len(reqs) THEN Outcome("ok", comps)
       ELSE IF \/ req.is_deleted
               \/ req.standard_requirement \in GrossTurnoverRequired
               \/ req.due_date = NULL
               \/ Before(req.due_date, today)
       THEN EachRequirement(ob, today, comps, i + 1)
       ELSE IF all.err # "ok" THEN all
       ELSE EachRequirement(ob, today, all.st, i + 1)

\* Proposal.generate_compliances: the Compliance rows it leaves
generate_compliances(ob, today) ==
    LET amended == IF ProposalTypeIs(ob.st.proposal, PROPOSAL_TYPE_AMENDMENT)
                   THEN RepointCompliances(ob) ELSE ob.compliances
        plain == EachRequirement(ob, today, amended, 1)
    IN IF plain.err # "ok" THEN plain
       ELSE generate_gross_turnover_compliances(
                [ob EXCEPT !.compliances = plain.st], today)

\* ------------------------------------------------------------ input sets
DocTypes == {"licence", "cover_letter", "sign_off_sheet"}

\* attached documents: every type once, or one type with another count
DocCounts ==
    {f \in [DocTypes -> 0..MaxDocs] :
        Cardinality({t \in DocTypes : f[t] # 1}) <= 1}

OneOfEach == [t \in DocTypes |-> 1]

FullDetails(decision) ==
    [details |-> TRUE, decision |-> decision, approval_type |-> TRUE,
     start_date |-> TRUE, expiry_date |-> TRUE]

RoiDetails(text, decision) ==
    [details |-> text, decision |-> decision, approval_type |-> FALSE,
     start_date |-> FALSE, expiry_date |-> FALSE]

GoodEnv == [address |-> TRUE, docs |-> OneOfEach, mandatory |-> {}]

\* a mandatory document type, with and without a document of that type
MandatoryEnvs ==
    {[GoodEnv EXCEPT !.mandatory = {"cover_letter"}],
     [GoodEnv EXCEPT !.mandatory = {"cover_letter"}, !.docs.cover_letter = 0]}

IncompleteDetails(p) ==
    IF p.application_type = APPLICATION_TYPE_REGISTRATION_OF_INTEREST
    THEN {RoiDetails(FALSE, "approve_lease_licence"), RoiDetails(TRUE, "")}
    ELSE {[FullDetails("") EXCEPT !.details = FALSE],
          [FullDetails("") EXCEPT !.approval_type = FALSE],
          [FullDetails("") EXCEPT !.start_date = FALSE],
          [FullDetails("") EXCEPT !.expiry_date = FALSE]}

CompleteDetails(p) ==
    IF p.application_type = APPLICATION_TYPE_REGISTRATION_OF_INTEREST
    THEN {RoiDetails(TRUE, "approve_lease_licence"),
          RoiDetails(TRUE, "approve_competitive_process")}
    ELSE {FullDetails("")}

\* the requests tried on proposed_approval, which reads neither the address
\* nor the document counts of the types that are not mandatory
ProposalInputs(p) ==
    (CompleteDetails(p) \X ({GoodEnv} \cup MandatoryEnvs))
    \cup (IncompleteDetails(p) \X {GoodEnv})

\* the requests tried on final_approval: complete ones under every
\* environment, and each incomplete one under a good environment
ApprovalInputs(p) ==
    (CompleteDetails(p)
        \X ({[GoodEnv EXCEPT !.docs = c] : c \in DocCounts}
             \cup MandatoryEnvs
             \cup {[GoodEnv EXCEPT !.address = FALSE]}))
    \cup (IncompleteDetails(p) \X {GoodEnv})

\* the approver comment is read only when the proposal is with an approver
Comments(p) ==
    IF p.processing_status = PROCESSING_STATUS_WITH_APPROVER
    THEN {"", "sent back"} ELSE {""}

TargetStatuses ==
    {PROCESSING_STATUS_WITH_ASSESSOR, PROCESSING_STATUS_WITH_ASSESSOR_CONDITIONS,
     PROCESSING_STATUS_WITH_APPROVER, PROCESSING_STATUS_WITH_REFERRAL,
     PROCESSING_STATUS_WITH_REFERRAL_CONDITIONS, PROCESSING_STATUS_APPROVED}

\* amounts, credits and debits in tenths of a cent: nothing, 50 cents, a
\* dollar, and a value with three decimal places
MoneyInputs == {0, 500, 1000, 5}

\* what an invoice is issued for
Amounts == {500, 1000}

\* the days on which an Oracle invoice is uploaded; the invoice is of day 1
UploadDays == {2, 3}

\* the Oracle invoice number of a request
OracleInvoiceNumbers == {7}

ChargeMethods ==
    {CHARGE_METHOD_NO_RENT_OR_LICENCE_CHARGE, CHARGE_METHOD_ONCE_OFF_CHARGE,
     CHARGE_METHOD_BASE_FEE_PLUS_FIXED_ANNUAL_INCREMENT,
     CHARGE_METHOD_PERCENTAGE_OF_GROSS_TURNOVER_IN_ARREARS,
     CHARGE_METHOD_PERCENTAGE_OF_GROSS_TURNOVER_IN_ADVANCE}

\* the repetition types of the gross turnover charge methods
RepetitionTypes == {REPETITION_TYPE_QUARTERLY, REPETITION_TYPE_MONTHLY}

\* once-off charges in cents, <<n>> for Decimal n and NULL for None: not
\* given, nothing, a refund, 5 dollars
OnceOffAmounts == {NULL, <<0>>, <<0 - 500>>, <<500>>}

InvoicingData(found, is_valid, method, repetition, amount) ==
    [found |-> found, is_valid |-> is_valid, charge_method |-> method,
     invoicing_repetition_type |-> repetition,
     once_off_charge_amount |-> amount]

\* the requests tried on finance_complete_editing: every charge method (a
\* once-off charge with every amount, a gross turnover method with every
\* repetition type), an unknown id and data the serializer rejects
FinanceRequests ==
    {InvoicingData(TRUE, TRUE, CHARGE_METHOD_ONCE_OFF_CHARGE,
                   REPETITION_TYPE_ANNUALLY, amount) :
        amount \in OnceOffAmounts}
    \cup {InvoicingData(TRUE, TRUE, method, repetition, NULL) :
            method \in {CHARGE_METHOD_PERCENTAGE_OF_GROSS_TURNOVER_IN_ARREARS,
                        CHARGE_METHOD_PERCENTAGE_OF_GROSS_TURNOVER_IN_ADVANCE},
            repetition \in RepetitionTypes}
    \cup {InvoicingData(TRUE, TRUE, method, REPETITION_TYPE_ANNUALLY, NULL) :
            method \in {CHARGE_METHOD_NO_RENT_OR_LICENCE_CHARGE,
                        CHARGE_METHOD_BASE_FEE_PLUS_FIXED_ANNUAL_INCREMENT}}
    \cup {InvoicingData(found, ~found, CHARGE_METHOD_ONCE_OFF_CHARGE,
                        REPETITION_TYPE_ANNUALLY, <<500>>) :
            found \in BOOLEAN}

\* the periods a lease or licence was approved for: the year 2024, a leap
\* day to the end of a month, a year into a leap year, a single day
Periods ==
    {[start_date |-> <<2024, 1, 1>>, expiry_date |-> <<2024, 12, 31>>],
     [start_date |-> <<2024, 2, 29>>, expiry_date |-> <<2024, 3, 31>>],
     [start_date |-> <<2023, 3, 1>>, expiry_date |-> <<2024, 2, 29>>],
     [start_date |-> <<2023, 7, 1>>, expiry_date |-> <<2023, 7, 1>>]}

\* what becomes of a renewal or amendment: it is lodged, approved, declined
\* or discarded
ChildStatuses ==
    {PROCESSING_STATUS_WITH_ASSESSOR, PROCESSING_STATUS_APPROVED,
     PROCESSING_STATUS_DECLINED, PROCESSING_STATUS_DISCARDED}

\* ------------------------------------------------------------------ actions
\* the request leaves the store as st and is remembered in last
Respond(st, req) ==
    /\ st.action_logs <= MaxLog
    /\ Len(st.referrals) <= MaxReferrals
    /\ proposal' = st.proposal
    /\ referrals' = st.referrals
    /\ requirements' = st.requirements
    /\ geometries' = st.geometries
    /\ action_logs' = st.action_logs
    /\ approvals' = st.approvals
    /\ last' = [req EXCEPT !.wrote = st # Store]
    /\ UNCHANGED <<invoice, transactions, ledger_net, aside>>

MoveToStatusBy(user, status, comment) ==
    LET out == move_to_status(Store, user, status, comment)
    IN Respond(out.st, Request("move_to_status", out.err))

MoveToStatus ==
    \E user \in Users, status \in TargetStatuses, comment \in Comments(proposal) :
        MoveToStatusBy(user, status, comment)

ProposedApprovalBy(user, d, env) ==
    LET out == proposed_approval(Store, user, d, env)
    IN Respond(Atomic(Store, out), Request("proposed_approval", out.err))

ProposedApproval ==
    \E user \in Users, in \in ProposalInputs(proposal) :
        ProposedApprovalBy(user, in[1], in[2])

FinalApprovalBy(user, d, env) ==
    LET out == final_approval(Store, user, d, env)
    IN Respond(Atomic(Store, out), Request("final_approval", out.err))

FinalApproval ==
    \E user \in Users, in \in ApprovalInputs(proposal) :
        FinalApprovalBy(user, in[1], in[2])

SendReferralBy(user, email) ==
    LET out == send_referral(Store, user, email)
    IN Respond(Atomic(Store, out), Request("send_referral", out.err))

\* only assessors can send referral requests
SendReferral ==
    \E user \in AssessorGroup, email \in ReferralEmails :
        SendReferralBy(user, email)

RecallBy(user, i) ==
    LET out == recall(Store, user, i)
    IN Respond(Atomic(Store, out), Request("recall", out.err))

Recall == \E user \in Users, i \in DOMAIN referrals : RecallBy(user, i)

ResendBy(user, i) ==
    LET out == resend(Store, user, i)
    IN Respond(Atomic(Store, out), Request("resend", out.err))

Resend == \E user \in Users, i \in DOMAIN referrals : ResendBy(user, i)

CompleteBy(user, i, doc) ==
    LET out == complete(Store, user, i, doc)
    IN Respond(Atomic(Store, out), Request("complete", out.err))

Complete ==
    \E user \in Users, i \in DOMAIN referrals, doc \in BOOLEAN :
        CompleteBy(user, i, doc)

ReferralSendReferralBy(user, i, email) ==
    LET out == referral_send_referral(Store, user, i, email)
    IN Respond(Atomic(Store, out), Request("referral_send_referral", out.err))

ReferralSendReferral ==
    \E user \in Users, i \in DOMAIN referrals, email \in ReferralEmails :
        ReferralSendReferralBy(user, i, email)

FinalDecline ==
    \E user \in Users :
        LET out == final_decline(Store, user)
        IN /\ out.err \in {"ok", "ProposalNotAuthorized",
                           "ValidationError: not with approver"}
           /\ Respond(Atomic(Store, out), Request("final_decline", out.err))

OnHold ==
    \E user \in Users :
        LET out == on_hold(Store, user)
        IN /\ out.err # "ok"
           /\ Respond(Atomic(Store, out), Request("on_hold", out.err))

OnHoldRemove ==
    \E user \in Users :
        LET out == on_hold_remove(Store, user)
        IN /\ out.err # "ok"
           /\ Respond(Atomic(Store, out), Request("on_hold_remove", out.err))

WithQaofficer ==
    \E user \in Users :
        LET out == with_qaofficer(Store, user)
        IN /\ out.err # "ok"
           /\ Respond(Atomic(Store, out), Request("with_qaofficer", out.err))

WithQaofficerCompleted ==
    \E user \in Users :
        LET out == with_qaofficer_completed(Store, user)
        IN /\ out.err # "ok"
           /\ Respond(Atomic(Store, out),
                      Request("with_qaofficer_completed", out.err))

ReissueApproval ==
    \E can_reissue \in BOOLEAN :
        LET out == reissue_approval(Store, can_reissue)
        IN /\ out.err \in {"ok", "ValidationError: not approved",
                           "ValidationError: no approval attached",
                           "ValidationError: cannot reissue"}
           /\ Respond(NotAtomic(Store, out),
                      Request("reissue_approval", out.err))

GenerateAmendment ==
    \E user \in Users, requested \in BOOLEAN :
        LET out == generate_amendment(Store, user, requested)
        IN /\ out.err \in {"ok", "ProposalNotAuthorized"}
           /\ Respond(Atomic(Store, out),
                      Request("generate_amendment", out.err))

RecordTransactionBy(user, credit, debit) ==
    LET out == record_transaction(invoice, transactions, user, credit, debit)
    IN /\ Len(out.transactions) <= MaxTransactions
       /\ invoice' = out.invoice
       /\ transactions' = out.transactions
       /\ ledger_net' = IF out.err = "ok" THEN ledger_net + credit - debit
                        ELSE ledger_net
       /\ last' = [Request("record_transaction", out.err)
                     EXCEPT !.wrote = out.transactions # transactions]
       /\ UNCHANGED <<proposal, referrals, requirements, geometries,
                      action_logs, approvals, aside>>

RecordTransaction ==
    \E user \in Users, credit \in MoneyInputs, debit \in MoneyInputs :
        RecordTransactionBy(user, credit, debit)

\* a finance officer records a payment of the amount of an invoice
RecordPayment ==
    \E user \in FinanceGroup, debit \in Amounts :
        RecordTransactionBy(user, 0, debit)

UploadOracleInvoiceBy(user, now, number, is_valid, gateway) ==
    LET out == InvoiceAtomic(invoice, transactions,
                   upload_oracle_invoice(invoice, transactions, user, now,
                                         number, is_valid, gateway))
    IN /\ now >= invoice.date_issued
       /\ invoice' = out.invoice
       /\ last' = [Request("upload_oracle_invoice", out.err)
                     EXCEPT !.wrote = out.invoice # invoice]
       /\ UNCHANGED <<proposal, referrals, requirements, geometries,
                      action_logs, approvals, transactions, ledger_net, aside>>

UploadOracleInvoice ==
    \E user \in Users, now \in UploadDays, number \in OracleInvoiceNumbers,
       is_valid \in BOOLEAN, gateway \in GatewayOutcomes :
        UploadOracleInvoiceBy(user, now, number, is_valid, gateway)

PayInvoiceSuccessBy(uuid) ==
    LET out == pay_invoice_success(invoice, transactions, uuid)
    IN /\ Len(out.transactions) <= MaxTransactions
       /\ invoice' = out.invoice
       /\ transactions' = out.transactions
       /\ ledger_net' = IF out.err = "200" THEN ledger_net - invoice.amount
                        ELSE ledger_net
       /\ last' = [Request("pay_invoice_success", out.err)
                     EXCEPT !.wrote = out.transactions # transactions]
       /\ UNCHANGED <<proposal, referrals, requirements, geometries,
                      action_logs, approvals, aside>>

\* the callback names this invoice or no invoice
PayInvoiceSuccess == \E uuid \in BOOLEAN : PayInvoiceSuccessBy(uuid)

FinanceCompleteEditingBy(data) ==
    LET out == finance_complete_editing(Books, data)
        b == Atomic(Books, out)
    IN /\ Len(b.invoices) <= MaxInvoices
       /\ proposal' = b.st.proposal
       /\ invoicing' = b.invoicing
       /\ invoices' = b.invoices
       /\ last' = [Request("finance_complete_editing", out.err)
                     EXCEPT !.wrote = b # Books]
       /\ UNCHANGED <<referrals, requirements, geometries, action_logs,
                      approvals, invoice, transactions, ledger_net, calls,
                      lineage, sundry>>

FinanceCompleteEditing ==
    \E data \in FinanceRequests : FinanceCompleteEditingBy(data)

FinanceCancelEditing ==
    LET out == finance_cancel_editing(Store)
    IN /\ proposal' = NotAtomic(Store, out).proposal
       /\ last' = Request("finance_cancel_editing", out.err)
       /\ UNCHANGED <<referrals, requirements, geometries, action_logs,
                      approvals, invoice, transactions, ledger_net, aside>>

\* a request that leaves the lineage of the proposal as r
Renewed(r, req) ==
    /\ Len(r.children) <= MaxChildren
    /\ children' = r.children
    /\ action_logs' = r.st.action_logs
    /\ last' = [req EXCEPT !.wrote = r # Lineage]
    /\ UNCHANGED <<proposal, referrals, requirements, geometries, approvals,
                   invoice, transactions, ledger_net, calls, invoicing,
                   invoices, issued, elsewhere, sundry>>

RenewApproval ==
    LET out == renew_approval(Lineage)
    IN Renewed(Atomic(Lineage, out), Request("renew_approval", out.err))

AmendApproval ==
    LET out == amend_approval(Lineage)
    IN Renewed(Atomic(Lineage, out), Request("amend_approval", out.err))

\* a renewal goes its own way: its processing_status changes
ChildMovesBy(i, status) ==
    /\ children[i].processing_status # status
    /\ children' = [children EXCEPT ![i].processing_status = status]
    /\ last' = Request("none", "ok")
    /\ UNCHANGED <<proposal, referrals, requirements, geometries, action_logs,
                   approvals, invoice, transactions, ledger_net, calls,
                   invoicing, invoices, issued, elsewhere, sundry>>

ChildMoves ==
    \E i \in DOMAIN children, status \in ChildStatuses :
        ChildMovesBy(i, status)

\* a finance officer edits the invoicing details of the approval
SaveInvoicingDetailsBy(data) ==
    LET out == save_invoicing_details(Books, data)
        b == Atomic(Books, out)
    IN /\ invoicing' = b.invoicing
       /\ last' = [Request("save_invoicing_details", out.err)
                     EXCEPT !.wrote = b # Books]
       /\ UNCHANGED <<proposal, referrals, requirements, geometries,
                      action_logs, approvals, invoice, transactions,
                      ledger_net, calls, invoices, lineage, sundry>>

\* the edits tried: every gross turnover method with every repetition type,
\* and a charge method without financial statements
TurnoverRequests ==
    {InvoicingData(TRUE, TRUE, method, repetition, NULL) :
        method \in GrossTurnoverMethods, repetition \in RepetitionTypes}
    \cup {InvoicingData(TRUE, TRUE, CHARGE_METHOD_NO_RENT_OR_LICENCE_CHARGE,
                        REPETITION_TYPE_ANNUALLY, NULL)}

SaveInvoicingDetails ==
    \E data \in TurnoverRequests : SaveInvoicingDetailsBy(data)

\* a run of one of the two methods leaves the requirements as out.st
Required(out, other, req) ==
    /\ Len(out.st) <= MaxRequirements
    /\ requirements' = out.st
    /\ elsewhere' = other
    /\ last' = [req EXCEPT !.err = out.err,
                           !.wrote = out.st # requirements
                                     \/ other # elsewhere]
    /\ UNCHANGED <<proposal, referrals, geometries, action_logs, approvals,
                   invoice, transactions, ledger_net, calls, invoicing,
                   invoices, issued, children, sundry>>

\* finance_complete_editing runs it for the gross turnover charge methods
GenerateGrossTurnoverRequirements ==
    /\ invoicing.charge_method \in GrossTurnoverMethods
    /\ Required(generate_gross_turnover_requirements(requirements, invoicing),
                elsewhere, Request("generate_gross_turnover_requirements", "ok"))

UpdateGrossTurnoverRequirements ==
    /\ proposal.invoicing_details
    /\ Required(update_gross_turnover_requirements(requirements, invoicing),
                UpdateElsewhere(requirements, elsewhere, invoicing),
                Request("update_gross_turnover_requirements", "ok"))

\* timezone.now().date() of the runs of generate_compliances: 1 July 2024
Today == <<2024, 7, 1>>

\* the approvals compliances are generated for: a quarter of a financial
\* year, and four months across two financial years
ApprovalPeriods ==
    {[start_date |-> <<2024, 7, 1>>, expiry_date |-> <<2024, 9, 30>>],
     [start_date |-> <<2024, 5, 1>>, expiry_date |-> <<2024, 8, 31>>]}

\* the requirements compliances are generated from: a requirement due once,
\* one due in the past and one without a due date; a requirement due every
\* second week, every year, every month; the financial statements of a
\* quarterly and of a monthly approval; requirements copied from those of
\* the previous proposal (11 and 12), one of them deleted
\* the rows of a proposal in the order they were saved in
InOrder(reqs) == [i \in DOMAIN reqs |-> [reqs[i] EXCEPT !.req_order = i]]

RequirementLists ==
    LET once(due) == DatedRequirement(1, due, FALSE, 0, 0, 0, FALSE)
        every(pattern, times, due) ==
            DatedRequirement(1, due, TRUE, pattern, times, 0, FALSE)
        statement(std, deleted) ==
            DatedRequirement(std, <<2024, 10, 31>>, TRUE, 3, 1, 0, deleted)
        copy(from, deleted) ==
            DatedRequirement(1, <<2024, 7, 20>>, FALSE, 0, 0, from, deleted)
    IN {InOrder(list) : list \in
       {<<once(<<2024, 7, 20>>), once(<<2024, 6, 20>>), once(NULL)>>,
        <<every(1, 2, <<2024, 7, 8>>)>>,
        <<every(3, 1, <<2024, 2, 29>>), every(3, 1, <<2024, 7, 1>>)>>,
        <<every(2, 1, <<2024, 7, 15>>)>>,
        <<statement(INVOICING_PERCENTAGE_GROSS_TURNOVER_ANNUALLY, FALSE),
          statement(INVOICING_PERCENTAGE_GROSS_TURNOVER_QUARTERLY, FALSE),
          statement(INVOICING_PERCENTAGE_GROSS_TURNOVER_MONTHLY, TRUE)>>,
        <<statement(INVOICING_PERCENTAGE_GROSS_TURNOVER_ANNUALLY, FALSE),
          statement(INVOICING_PERCENTAGE_GROSS_TURNOVER_QUARTERLY, TRUE),
          statement(INVOICING_PERCENTAGE_GROSS_TURNOVER_MONTHLY, FALSE)>>,
        <<copy(11, FALSE), copy(12, TRUE)>>}}

\* the compliances of the previous proposal, for its requirements 11 and 12
PreviousCompliances ==
    LET previous(req, status) ==
            [NewCompliance(req, <<2024, 7, 20>>)
                EXCEPT !.proposal = PREVIOUS, !.approval = PREVIOUS,
                       !.processing_status = status]
    IN {<<>>,
        <<previous(11, COMPLIANCE_STATUS_DUE),
          previous(12, COMPLIANCE_STATUS_DUE)>>,
        <<previous(11, COMPLIANCE_STATUS_FUTURE)>>}

\* final_approval and finance_complete_editing generate the compliances of
\* the approval, in their transaction
GenerateCompliances ==
    LET out == generate_compliances(Obligations, Today)
        after == Atomic(compliances, out)
    IN /\ Len(after) <= MaxCompliances
       /\ compliances' = after
       /\ last' = [Request("generate_compliances", out.err)
                     EXCEPT !.wrote = after # compliances]
       /\ UNCHANGED <<proposal, referrals, requirements, geometries,
                      action_logs, approvals, invoice, transactions,
                      ledger_net, calls, invoicing, invoices, lineage, cron>>

\* the due date of a compliance comes near: it is due
ComplianceDue ==
    \E k \in DOMAIN compliances :
        /\ Cardinality({j \in DOMAIN compliances :
               compliances[j].processing_status = COMPLIANCE_STATUS_DUE})
              < MaxDue
        /\ compliances[k].processing_status = COMPLIANCE_STATUS_FUTURE
        /\ compliances' = [compliances EXCEPT ![k].processing_status =
                                                  COMPLIANCE_STATUS_DUE]
        /\ last' = Request("none", "ok")
        /\ UNCHANGED <<proposal, referrals, requirements, geometries,
                       action_logs, approvals, invoice, transactions,
                       ledger_net, calls, invoicing, invoices, lineage, cron>>

\* the requests that may be in progress at the same time
Callers == {1, 2}

\* a request that has not started: no object is loaded
NoCall == [pc |-> "idle", status |-> "", loaded |-> <<>>, err |-> "",
           raced |-> FALSE]

NoCalls == [c \in Callers |-> NoCall]

\* a request to move the proposal starts: the view loads the Proposal row
\* into an object (get_object); raced tells that another request had loaded
\* its object and not yet finished
GetObjectBy(c, status) ==
    LET others == {d \in Callers : d # c /\ calls[d].pc = "loaded"}
    IN /\ calls[c].pc = "idle"
       /\ calls' = [d \in Callers |->
                      IF d = c
                      THEN [pc |-> "loaded", status |-> status,
                            loaded |-> proposal, err |-> "",
                            raced |-> others # {}]
                      ELSE IF d \in others
                      THEN [calls[d] EXCEPT !.raced = TRUE]
                      ELSE calls[d]]
       /\ UNCHANGED <<proposal, referrals, requirements, geometries,
                      action_logs, approvals, invoice, transactions,
                      ledger_net, invoicing, invoices, lineage, sundry, last>>

GetObject ==
    \E c \in Callers, status \in TargetStatuses : GetObjectBy(c, status)

\* move_to_status runs on the object the request loaded: its checks read the
\* object's fields, its queries read the tables as they are now, and save()
\* writes every field of the object over the row
MoveLoadedBy(c, user) ==
    LET self == [Store EXCEPT !.proposal = calls[c].loaded]
        out == move_to_status(self, user, calls[c].status, "")
        st == IF out.st = self THEN Store ELSE out.st
    IN /\ calls[c].pc = "loaded"
       /\ proposal' = st.proposal
       /\ requirements' = st.requirements
       /\ geometries' = st.geometries
       /\ action_logs' = st.action_logs
       /\ calls' = [calls EXCEPT ![c].pc = "done", ![c].err = out.err]
       /\ last' = [Request("move_to_status", out.err)
                     EXCEPT !.wrote = st # Store]
       /\ UNCHANGED <<referrals, approvals, invoice, transactions,
                      ledger_net, invoicing, invoices, lineage, sundry>>

\* the requests are made by assessors
MoveLoaded ==
    \E c \in Callers, user \in AssessorGroup : MoveLoadedBy(c, user)

\* ------------------------------------------------------------ initial state
\* a renewal or amendment is a clone of an approved proposal: it carries the
\* previous proposal's approval; a renewal also its proposed issuance data
InitialProposal(type, app, status) ==
    [proposal_type |-> type,
     application_type |-> app,
     processing_status |-> status,
     approver_comment |-> "",
     proposed_issuance_approval |->
         IF type = PROPOSAL_TYPE_RENEWAL
         THEN [NoIssuance EXCEPT !.stored = TRUE] ELSE NoIssuance,
     approved_by |-> 0,
     approval |-> IF type = PROPOSAL_TYPE_NEW THEN 0 ELSE 1,
     previous_application |-> type # PROPOSAL_TYPE_NEW,
     previous_approval |-> IF type = PROPOSAL_TYPE_NEW THEN 0 ELSE 1,
     invoicing_details |-> FALSE,
     generated_proposal |-> "None",
     generated_competitive_process |-> FALSE,
     prev_processing_status |-> "None"]

InitialApprovals(type) ==
    IF type = PROPOSAL_TYPE_NEW THEN <<>>
    ELSE <<[current_proposal |-> PREVIOUS, documents |-> TRUE]>>

NoRequest == Request("none", "ok")

\* a proposal as lodged (with the assessor) or still a draft
InitStore(type, app, status) ==
    /\ proposal = InitialProposal(type, app, status)
    /\ approvals = InitialApprovals(type)
    /\ referrals = <<>>
    /\ requirements = <<>>
    /\ geometries = <<[drawn_by |-> 1, locked |-> FALSE]>>
    /\ action_logs = 0
    /\ invoice = InitInvoiceRow(1000)
    /\ transactions = <<>>
    /\ ledger_net = 0
    /\ calls = NoCalls
    /\ invoicing = NoInvoicing
    /\ invoices = <<>>
    /\ issued = NoPeriod
    /\ elsewhere = <<>>
    /\ children = <<>>
    /\ compliances = <<>>
    /\ cron = NoCron
    /\ last = NoRequest

ApplicationTypes ==
    {APPLICATION_TYPE_REGISTRATION_OF_INTEREST, APPLICATION_TYPE_LEASE_LICENCE}

\* the assessment of a new proposal, referrals included
Init ==
    \E app \in ApplicationTypes,
       status \in {PROCESSING_STATUS_DRAFT, PROCESSING_STATUS_WITH_ASSESSOR} :
        InitStore(PROPOSAL_TYPE_NEW, app, status)

Next ==
    \/ MoveToStatus
    \/ ProposedApproval
    \/ FinalApproval
    \/ SendReferral
    \/ Recall
    \/ Resend
    \/ Complete
    \/ ReferralSendReferral

Spec == Init /\ [][Next]_vars

\* the issuance of an approval for every proposal type, without referrals
InitIssuance ==
    \E type \in {PROPOSAL_TYPE_NEW, PROPOSAL_TYPE_RENEWAL,
                  PROPOSAL_TYPE_AMENDMENT},
       app \in ApplicationTypes :
        InitStore(type, app, PROCESSING_STATUS_WITH_ASSESSOR)

NextIssuance ==
    \/ MoveToStatus
    \/ ProposedApproval
    \/ FinalApproval

SpecIssuance == InitIssuance /\ [][NextIssuance]_vars

\* the operations that write a proposal's processing_status, on a new
\* application for a lease or licence
InitWorkflow ==
    InitStore(PROPOSAL_TYPE_NEW, APPLICATION_TYPE_LEASE_LICENCE,
              PROCESSING_STATUS_WITH_ASSESSOR)

\* proposed_approval and final_approval with complete details, every
\* document and a postal address
ProposeComplete ==
    \E user \in Users :
        ProposedApprovalBy(user, CHOOSE d \in CompleteDetails(proposal) : TRUE,
                           GoodEnv)

ApproveComplete ==
    \E user \in Users :
        FinalApprovalBy(user, CHOOSE d \in CompleteDetails(proposal) : TRUE,
                        GoodEnv)

\* finance_complete_editing without a charge and with a once-off charge
CompleteEditing ==
    \E data \in {InvoicingData(TRUE, TRUE,
                      CHARGE_METHOD_NO_RENT_OR_LICENCE_CHARGE,
                      REPETITION_TYPE_ANNUALLY, NULL),
                  InvoicingData(TRUE, TRUE, CHARGE_METHOD_ONCE_OFF_CHARGE,
                      REPETITION_TYPE_ANNUALLY, <<500>>)} :
        FinanceCompleteEditingBy(data)

NextWorkflow ==
    \/ MoveToStatus
    \/ ProposeComplete
    \/ ApproveComplete
    \/ SendReferral
    \/ Resend
    \/ Complete
    \/ FinalDecline
    \/ OnHold
    \/ OnHoldRemove
    \/ WithQaofficer
    \/ WithQaofficerCompleted
    \/ CompleteEditing
    \/ FinanceCancelEditing
    \/ ReissueApproval
    \/ GenerateAmendment

SpecWorkflow == InitWorkflow /\ [][NextWorkflow]_vars

\* the requirements of a proposal, added, marked deleted and moved
MaxOrdered == 3

Reordered(out, op) ==
    /\ requirements' = out.st
    /\ last' = [Request(op, out.err) EXCEPT !.wrote = out.st # requirements]
    /\ UNCHANGED <<proposal, referrals, geometries, action_logs, approvals,
                   invoice, transactions, ledger_net, aside>>

\* the free-text requirement of a row: None, or some text
NO_TEXT == "None"

FreeRequirements == {NO_TEXT, "text"}

\* the standard requirement of a row: None (0), or the id of one
StandardRequirements == {0, 1}

\* ProposalRequirement.save of a new row: the order is set first, then the
\* row is refused when it has neither a free nor a standard requirement;
\* nothing else about the two fields is tested before the row is written
save(reqs, std, free) ==
    IF free = NO_TEXT /\ std = 0
    THEN Outcome("ValueError", reqs)
    ELSE Outcome("ok", Append(reqs,
             NewRequirement(reqs, std) @@ [free_requirement |-> free]))

SaveRequirement ==
    /\ Len(requirements) < MaxOrdered
    /\ \E std \in StandardRequirements, free \in FreeRequirements :
           Reordered(save(requirements, std, free), "save")

\* the row is marked deleted, or restored
SetDeleted ==
    \E i \in DOMAIN requirements :
        Reordered(Outcome("ok", [requirements EXCEPT
                      ![i].is_deleted = ~requirements[i].is_deleted]),
                  "is_deleted")

MoveUp ==
    \E i \in DOMAIN requirements :
        Reordered(move_up(requirements, i), "move_up")

MoveDown ==
    \E i \in DOMAIN requirements :
        Reordered(move_down(requirements, i), "move_down")

Swap ==
    \E i, j \in DOMAIN requirements :
        /\ i # j
        /\ Reordered(swap(requirements, i, j), "swap")

InitOrder ==
    InitStore(PROPOSAL_TYPE_NEW, APPLICATION_TYPE_LEASE_LICENCE,
              PROCESSING_STATUS_WITH_ASSESSOR_CONDITIONS)

NextOrder ==
    \/ SaveRequirement
    \/ SetDeleted
    \/ MoveUp
    \/ MoveDown
    \/ Swap

SpecOrder == InitOrder /\ [][NextOrder]_vars

\* Referral.complete runs in a transaction of its own: what it writes is
\* seen by other requests once it has committed, and its queries read what
\* the others have committed and what it has written itself.
\* The referee's request starts: the Referral row i is set to completed and
\* saved, in the transaction
CompleteSavesBy(c, i) ==
    /\ calls[c].pc = "idle"
    /\ referrals[i].processing_status = REFERRAL_WITH_REFERRAL
    /\ calls' = [calls EXCEPT ![c] = [NoCall EXCEPT !.pc = "saved",
                                                    !.loaded = <<i>>]]
    /\ UNCHANGED <<proposal, referrals, requirements, geometries,
                   action_logs, approvals, invoice, transactions, ledger_net,
                   invoicing, invoices, lineage, sundry, last>>

CompleteSaves ==
    \E c \in Callers, i \in DOMAIN referrals : CompleteSavesBy(c, i)

\* the request asks whether a referral of the proposal is still pending: it
\* reads the rows as committed, with its own row completed; status is the
\* processing_status it assigns to the proposal, if it assigns one
CompleteChecksBy(c) ==
    LET i == calls[c].loaded[1]
        seen == complete(Store, c, i, FALSE).st
    IN /\ calls[c].pc = "saved"
       /\ calls' = [calls EXCEPT
              ![c].pc = "checked",
              ![c].status = IF PendingReferralExists(seen.referrals) THEN ""
                            ELSE seen.proposal.processing_status,
              ![c].raced = \E d \in Callers \ {c} :
                               calls[d].pc \in {"saved", "checked"}]
       /\ UNCHANGED <<proposal, referrals, requirements, geometries,
                      action_logs, approvals, invoice, transactions,
                      ledger_net, invoicing, invoices, lineage, sundry, last>>

CompleteChecks == \E c \in Callers : CompleteChecksBy(c)

\* the transaction commits: the Referral row, the logged actions and, when
\* the request saved the proposal, the Proposal row
CompleteCommitsBy(c) ==
    LET i == calls[c].loaded[1]
        out == complete(Store, c, i, FALSE)
        st == [out.st EXCEPT !.proposal =
                  IF calls[c].status = "" THEN proposal
                  ELSE [proposal EXCEPT
                           !.processing_status = calls[c].status]]
    IN /\ calls[c].pc = "checked"
       /\ calls' = [calls EXCEPT ![c].pc = "done"]
       /\ proposal' = st.proposal
       /\ referrals' = st.referrals
       /\ action_logs' = st.action_logs
       /\ last' = [Request("complete", out.err) EXCEPT !.wrote = TRUE]
       /\ UNCHANGED <<requirements, geometries, approvals, invoice,
                      transactions, ledger_net, invoicing, invoices, lineage,
                      sundry>>

CompleteCommits == \E c \in Callers : CompleteCommitsBy(c)

\* a proposal with two referees, or with one: each referral was sent by an
\* assessor and is pending
InitReferees ==
    /\ \E app \in ApplicationTypes :
           proposal = InitialProposal(PROPOSAL_TYPE_NEW, app,
                                      PROCESSING_STATUS_WITH_REFERRAL)
    /\ approvals = <<>>
    /\ \E n \in 1..MaxReferrals :
           referrals = [k \in 1..n |-> NewReferral(k + 1, 1, 1)]
    /\ requirements = <<>>
    /\ geometries = <<[drawn_by |-> 1, locked |-> FALSE]>>
    /\ action_logs = 0
    /\ invoice = InitInvoiceRow(1000)
    /\ transactions = <<>>
    /\ ledger_net = 0
    /\ calls = NoCalls
    /\ invoicing = NoInvoicing
    /\ invoices = <<>>
    /\ issued = NoPeriod
    /\ elsewhere = <<>>
    /\ children = <<>>
    /\ compliances = <<>>
    /\ cron = NoCron
    /\ last = NoRequest

NextReferees ==
    \/ CompleteSaves
    \/ CompleteChecks
    \/ CompleteCommits

SpecReferees == InitReferees /\ [][NextReferees]_vars

\* the payment-success callback runs in a transaction of its own
\* (@transaction.atomic). A delivery starts: it asks whether an unpaid
\* invoice with the uuid exists, reading what is committed, and loads the
\* Invoice row; without one it answers 400
CallbackChecksBy(c, uuid) ==
    LET seen == pay_invoice_success(invoice, transactions, uuid)
        passes == seen.err = "200"
    IN /\ calls[c].pc = "idle"
       /\ calls' = [calls EXCEPT ![c] =
              [NoCall EXCEPT
                  !.pc = IF passes THEN "passed" ELSE "done",
                  !.err = seen.err,
                  !.loaded = IF passes THEN <<invoice>> ELSE <<>>,
                  !.raced = \E d \in Callers \ {c} : calls[d].pc = "passed"]]
       /\ last' = IF passes THEN last
                  ELSE Request("pay_invoice_success", seen.err)
       /\ UNCHANGED <<proposal, referrals, requirements, geometries,
                      action_logs, approvals, invoice, transactions,
                      ledger_net, invoicing, invoices, lineage, sundry>>

CallbackChecks ==
    \E c \in Callers, uuid \in BOOLEAN : CallbackChecksBy(c, uuid)

\* the delivery creates the InvoiceTransaction, saves the Invoice object it
\* loaded as paid, and commits
CallbackCommitsBy(c) ==
    LET out == pay_invoice_success(calls[c].loaded[1], transactions, TRUE)
    IN /\ calls[c].pc = "passed"
       /\ Len(out.transactions) <= MaxTransactions
       /\ calls' = [calls EXCEPT ![c].pc = "done"]
       /\ invoice' = out.invoice
       /\ transactions' = out.transactions
       /\ ledger_net' = ledger_net - invoice.amount
       /\ last' = [Request("pay_invoice_success", out.err)
                     EXCEPT !.wrote = TRUE]
       /\ UNCHANGED <<proposal, referrals, requirements, geometries,
                      action_logs, approvals, invoicing, invoices, lineage,
                      sundry>>

CallbackCommits == \E c \in Callers : CallbackCommitsBy(c)

\* requests to move a proposal under assessment, one beside the other
InitRace ==
    \E app \in ApplicationTypes,
       status \in {PROCESSING_STATUS_WITH_ASSESSOR,
                   PROCESSING_STATUS_WITH_ASSESSOR_CONDITIONS} :
        InitStore(PROPOSAL_TYPE_NEW, app, status)

NextRace ==
    \/ GetObject
    \/ MoveLoaded

SpecRace == InitRace /\ [][NextRace]_vars

\* the invoicing details of an approved lease or licence under edition
InitInvoicing(others) ==
    /\ proposal = [InitialProposal(PROPOSAL_TYPE_NEW,
                                   APPLICATION_TYPE_LEASE_LICENCE,
                                   PROCESSING_STATUS_APPROVED_EDITING_INVOICING)
                       EXCEPT !.approval = 1, !.invoicing_details = TRUE]
    /\ approvals = <<[current_proposal |-> THIS, documents |-> TRUE]>>
    /\ referrals = <<>>
    /\ requirements = <<>>
    /\ geometries = <<>>
    /\ action_logs = 0
    /\ invoice = InitInvoiceRow(1000)
    /\ transactions = <<>>
    /\ ledger_net = 0
    /\ calls = NoCalls
    /\ invoicing = NoInvoicing
    /\ invoices = <<>>
    /\ issued = NoPeriod
    /\ elsewhere \in others
    /\ children = <<>>
    /\ compliances = <<>>
    /\ cron = NoCron
    /\ last = NoRequest

InitFinance == InitInvoicing({<<>>})

NextFinance ==
    \/ FinanceCompleteEditing
    \/ FinanceCancelEditing
    \/ SaveInvoicingDetails

SpecFinance == InitFinance /\ [][NextFinance]_vars

\* an approval whose invoicing details are edited and whose financial
\* statements are generated and updated
NextTurnover ==
    \/ SaveInvoicingDetails
    \/ GenerateGrossTurnoverRequirements
    \/ UpdateGrossTurnoverRequirements

\* the requirements of another proposal: none, its financial statements
\* for a year and a quarter, its statements for a month with one deleted
OtherRequirements ==
    LET statement(std, deleted) ==
            [NewRequirement(<<>>, std) EXCEPT !.is_deleted = deleted]
    IN {InOrder(list) : list \in
       {<<>>,
        <<statement(INVOICING_PERCENTAGE_GROSS_TURNOVER_ANNUALLY, FALSE),
          statement(INVOICING_PERCENTAGE_GROSS_TURNOVER_QUARTERLY, FALSE)>>,
        <<statement(INVOICING_PERCENTAGE_GROSS_TURNOVER_MONTHLY, FALSE),
          statement(INVOICING_PERCENTAGE_GROSS_TURNOVER_QUARTERLY, TRUE)>>}}

InitTurnover == InitInvoicing(OtherRequirements)

SpecTurnover == InitTurnover /\ [][NextTurnover]_vars

\* an approved proposal with dated requirements, and the compliances of the
\* proposal it amends
InitCompliance ==
    /\ \E type \in {PROPOSAL_TYPE_NEW, PROPOSAL_TYPE_AMENDMENT} :
           proposal = [InitialProposal(type, APPLICATION_TYPE_LEASE_LICENCE,
                           PROCESSING_STATUS_APPROVED_EDITING_INVOICING)
                          EXCEPT !.approval = 1, !.invoicing_details = TRUE]
    /\ approvals = <<[current_proposal |-> THIS, documents |-> TRUE]>>
    /\ referrals = <<>>
    /\ requirements \in RequirementLists
    /\ geometries = <<>>
    /\ action_logs = 0
    /\ invoice = InitInvoiceRow(1000)
    /\ transactions = <<>>
    /\ ledger_net = 0
    /\ calls = NoCalls
    /\ \E repetition \in RepetitionTypes :
           invoicing = [NoInvoicing EXCEPT
               !.charge_method =
                   CHARGE_METHOD_PERCENTAGE_OF_GROSS_TURNOVER_IN_ARREARS,
               !.invoicing_repetition_type = repetition]
    /\ invoices = <<>>
    /\ issued \in ApprovalPeriods
    /\ elsewhere = <<>>
    /\ children = <<>>
    /\ compliances \in PreviousCompliances
    /\ cron = NoCron
    /\ last = NoRequest

NextCompliance ==
    \/ GenerateCompliances
    \/ ComplianceDue

SpecCompliance == InitCompliance /\ [][NextCompliance]_vars

\* ---------------------------------------------------------------------
\* The daily jobs (management/commands).  cron.items are the rows the job
\* of cron.job reads, cron.sent the mails sent so far today, cron.report
\* what the last run wrote at its end.
\* ---------------------------------------------------------------------
SIXTY == 60

FORTY_FIVE == 45

JOB_CPI == "send_custom_cpi_reminders"

JOB_COMPLIANCE == "send_compliance_reminder"

JOB_ECLASS == "eclass_expiry_notices"

COMPLIANCE_STATUS_OVERDUE == "overdue"

Mail(to, mail, days) == [to |-> to, mail |-> mail, days |-> days]

\* Approval.custom_cpi_entry_reminder_due_in(days): the next invoicing period
\* starts in that many days
custom_cpi_entry_reminder_due_in(approval, days) ==
    approval.next_period_in = days

\* Approval.crown_land_rent_review_reminder_due_in(days): the crown land rent
\* review is in that many days
crown_land_rent_review_reminder_due_in(approval, days) ==
    approval.rent_review_in = days

\* days_due_in of send_custom_cpi_reminders, 0 for None
DaysDueIn(approval) ==
    IF crown_land_rent_review_reminder_due_in(approval, FORTY_FIVE)
    THEN FORTY_FIVE
    ELSE IF custom_cpi_entry_reminder_due_in(approval, SIXTY)
         THEN SIXTY ELSE 0

RECURSIVE CustomCpiReminders(_, _, _)
CustomCpiReminders(rows, i, sent) ==
    IF i > Len(rows) THEN sent
    ELSE LET approval == rows[i]
             days_due_in == DaysDueIn(approval)
         IN IF \/ ~approval.has_future_invoicing_periods
               \/ approval.custom_cpi_entered_for_next_invoicing_period
               \/ days_due_in = 0
               \/ approval.fails
            THEN CustomCpiReminders(rows, i + 1, sent)
            ELSE CustomCpiReminders(rows, i + 1,
                     Append(sent, Mail(approval.id, "custom_cpi_entry",
                                       days_due_in)))

\* Command.handle of send_custom_cpi_reminders: it keeps no list of errors
\* and writes no flag; its last lines log that it finished and the time
send_custom_cpi_reminders(c) ==
    [c EXCEPT !.sent = CustomCpiReminders(c.items, 1, c.sent),
              !.report = [finished |-> TRUE, counted |-> FALSE,
                          errors |-> 0]]

RECURSIVE ComplianceReminders(_, _, _)
ComplianceReminders(rows, i, acc) ==
    IF i > Len(rows) THEN acc
    ELSE LET c == rows[i]
             failed == [acc EXCEPT !.errors = @ + 1]
             reminded ==
                 IF c.send_reminder = "sent"
                 THEN [acc EXCEPT !.sent =
                          Append(@, Mail(c.id, "compliance_reminder", 0))]
                 ELSE acc
         IN IF c.processing_status \notin
                   {COMPLIANCE_STATUS_DUE, COMPLIANCE_STATUS_OVERDUE}
            THEN ComplianceReminders(rows, i + 1, acc)
            ELSE IF c.send_reminder = "raises"
            THEN ComplianceReminders(rows, i + 1, failed)
            ELSE IF ~c.has_pending_transfer
            THEN ComplianceReminders(rows, i + 1, reminded)
            ELSE IF c.fails
            THEN ComplianceReminders(rows, i + 1,
                     [reminded EXCEPT !.errors = @ + 1])
            ELSE ComplianceReminders(rows, i + 1,
                     [reminded EXCEPT !.sent =
                         Append(@, Mail(c.id, "preventing_transfer", 0))])

\* Command.handle of send_compliance_reminder
send_compliance_reminder(c) ==
    LET out == ComplianceReminders(c.items, 1,
                                   [sent |-> c.sent, errors |-> 0])
    IN [c EXCEPT !.sent = out.sent,
                 !.report = [finished |-> TRUE, counted |-> TRUE,
                             errors |-> out.errors]]

RECURSIVE EclassNotices(_, _, _)
EclassNotices(rows, i, acc) ==
    IF i > Len(rows) THEN acc
    ELSE LET a == rows[i]
         IN IF \/ ~a.expiring
               \/ a.expiry_notice_sent
               \/ a.status \notin {"extended", "current", "suspended"}
            THEN EclassNotices(rows, i + 1, acc)
            ELSE IF a.fails
            THEN EclassNotices(rows, i + 1, [acc EXCEPT !.errors = @ + 1])
            ELSE EclassNotices(rows, i + 1,
                     [acc EXCEPT
                         !.items[i].expiry_notice_sent = TRUE,
                         !.sent = Append(@, Mail(a.id, "eclass_expiry", 0))])

\* Command.handle of eclass_expiry_notices
eclass_expiry_notices(c) ==
    LET out == EclassNotices(c.items, 1,
                   [items |-> c.items, sent |-> c.sent, errors |-> 0])
    IN [c EXCEPT !.items = out.items,
                 !.sent = out.sent,
                 !.report = [finished |-> TRUE, counted |-> TRUE,
                             errors |-> out.errors]]

RunJob(job, c) ==
    IF job = JOB_CPI THEN send_custom_cpi_reminders(c)
    ELSE IF job = JOB_COMPLIANCE THEN send_compliance_reminder(c)
    ELSE eclass_expiry_notices(c)

MaxSent == 4

MaxDays == 2

Ran(c) ==
    /\ Len(c.sent) <= MaxSent
    /\ cron' = c
    /\ last' = [Request(cron.job, "ok") EXCEPT !.wrote = (c.items # cron.items)]
    /\ UNCHANGED <<proposal, referrals, requirements, geometries,
                   action_logs, approvals, invoice, transactions, ledger_net,
                   calls, invoicing, invoices, lineage, compliances>>

SendCustomCpiReminders ==
    /\ cron.job = JOB_CPI
    /\ Ran(send_custom_cpi_reminders(cron))

SendComplianceReminder ==
    /\ cron.job = JOB_COMPLIANCE
    /\ Ran(send_compliance_reminder(cron))

EclassExpiryNotices ==
    /\ cron.job = JOB_ECLASS
    /\ Ran(eclass_expiry_notices(cron))

\* a day passes: every date is one day nearer, and the mails of the day
\* and the report of its run are of yesterday
Tomorrow(job, row) ==
    IF job = JOB_CPI
    THEN [row EXCEPT !.next_period_in = @ - 1, !.rent_review_in = @ - 1]
    ELSE row

NewDay ==
    /\ cron.job # "None"
    /\ cron.day < MaxDays
    /\ cron' = [cron EXCEPT
                   !.day = @ + 1,
                   !.items = [i \in DOMAIN @ |-> Tomorrow(cron.job, @[i])],
                   !.sent = <<>>,
                   !.report = NoReport]
    /\ last' = NoRequest
    /\ UNCHANGED <<proposal, referrals, requirements, geometries,
                   action_logs, approvals, invoice, transactions, ledger_net,
                   calls, invoicing, invoices, lineage, compliances>>

CpiApprovals ==
    {<<a, b>> :
        a \in [id : {1},
               has_future_invoicing_periods : {TRUE},
               custom_cpi_entered_for_next_invoicing_period : BOOLEAN,
               next_period_in : {61, 60, 46},
               rent_review_in : {46, 300},
               fails : BOOLEAN],
        b \in [id : {2},
               has_future_invoicing_periods : BOOLEAN,
               custom_cpi_entered_for_next_invoicing_period : {FALSE},
               next_period_in : {60, 100},
               rent_review_in : {300},
               fails : {FALSE}]}

DueCompliances ==
    {<<a, b>> :
        a \in [id : {1},
               processing_status : {COMPLIANCE_STATUS_DUE,
                                    COMPLIANCE_STATUS_OVERDUE,
                                    COMPLIANCE_STATUS_FUTURE},
               send_reminder : {"sent", "none", "raises"},
               has_pending_transfer : BOOLEAN,
               fails : BOOLEAN],
        b \in [id : {2},
               processing_status : {COMPLIANCE_STATUS_DUE},
               send_reminder : {"sent"},
               has_pending_transfer : {FALSE},
               fails : {FALSE}]}

EclassApprovals ==
    {<<a, b>> :
        a \in [id : {1},
               status : {"current", "extended", "suspended", "expired"},
               expiring : BOOLEAN,
               expiry_notice_sent : BOOLEAN,
               fails : BOOLEAN],
        b \in [id : {2},
               status : {"current"},
               expiring : {TRUE},
               expiry_notice_sent : {FALSE},
               fails : {FALSE}]}

InitCron ==
    /\ proposal = [InitialProposal(PROPOSAL_TYPE_NEW,
                       APPLICATION_TYPE_LEASE_LICENCE,
                       PROCESSING_STATUS_APPROVED)
                      EXCEPT !.approval = 1, !.invoicing_details = TRUE]
    /\ approvals = <<[current_proposal |-> THIS, documents |-> TRUE]>>
    /\ referrals = <<>>
    /\ requirements = <<>>
    /\ geometries = <<>>
    /\ action_logs = 0
    /\ invoice = InitInvoiceRow(1000)
    /\ transactions = <<>>
    /\ ledger_net = 0
    /\ calls = NoCalls
    /\ invoicing = NoInvoicing
    /\ invoices = <<>>
    /\ issued \in ApprovalPeriods
    /\ elsewhere = <<>>
    /\ children = <<>>
    /\ compliances = <<>>
    /\ \E job \in {JOB_CPI, JOB_COMPLIANCE, JOB_ECLASS} :
       \E items \in (IF job = JOB_CPI THEN CpiApprovals
                     ELSE IF job = JOB_COMPLIANCE THEN DueCompliances
                     ELSE EclassApprovals) :
           cron = [NoCron EXCEPT !.job = job, !.items = items]
    /\ last = NoRequest

NextCron ==
    \/ SendCustomCpiReminders
    \/ SendComplianceReminder
    \/ EclassExpiryNotices
    \/ NewDay

SpecCron == InitCron /\ [][NextCron]_vars

\* an approved lease or licence, renewed and amended
InitRenewal ==
    /\ proposal = [InitialProposal(PROPOSAL_TYPE_NEW,
                                   APPLICATION_TYPE_LEASE_LICENCE,
                                   PROCESSING_STATUS_APPROVED)
                       EXCEPT !.approval = 1, !.invoicing_details = TRUE,
                              !.proposed_issuance_approval.stored = TRUE]
    /\ approvals = <<[current_proposal |-> THIS, documents |-> TRUE]>>
    /\ referrals = <<>>
    /\ requirements = <<>>
    /\ geometries = <<[drawn_by |-> 1, locked |-> TRUE]>>
    /\ action_logs = 0
    /\ invoice = InitInvoiceRow(1000)
    /\ transactions = <<>>
    /\ ledger_net = 0
    /\ calls = NoCalls
    /\ invoicing = NoInvoicing
    /\ invoices = <<>>
    /\ issued \in Periods
    /\ elsewhere = <<>>
    /\ children = <<>>
    /\ compliances = <<>>
    /\ cron = NoCron
    /\ last = NoRequest

NextRenewal ==
    \/ RenewApproval
    \/ AmendApproval
    \/ ChildMoves

SpecRenewal == InitRenewal /\ [][NextRenewal]_vars

\* the invoice ledger on its own
InitInvoice ==
    /\ proposal = [InitialProposal(PROPOSAL_TYPE_NEW,
                                   APPLICATION_TYPE_LEASE_LICENCE,
                                   PROCESSING_STATUS_APPROVED)
                       EXCEPT !.approval = 1, !.invoicing_details = TRUE]
    /\ approvals = <<[current_proposal |-> THIS, documents |-> TRUE]>>
    /\ referrals = <<>>
    /\ requirements = <<>>
    /\ geometries = <<>>
    /\ action_logs = 0
    /\ \E amount \in Amounts : invoice = InitInvoiceRow(amount)
    /\ transactions = <<>>
    /\ ledger_net = 0
    /\ calls = NoCalls
    /\ invoicing = NoInvoicing
    /\ invoices = <<>>
    /\ issued = NoPeriod
    /\ elsewhere = <<>>
    /\ children = <<>>
    /\ compliances = <<>>
    /\ cron = NoCron
    /\ last = NoRequest

\* an invoice whose Oracle invoice has been uploaded: it is unpaid
InitCallback ==
    /\ proposal = [InitialProposal(PROPOSAL_TYPE_NEW,
                                   APPLICATION_TYPE_LEASE_LICENCE,
                                   PROCESSING_STATUS_APPROVED)
                       EXCEPT !.approval = 1, !.invoicing_details = TRUE]
    /\ approvals = <<[current_proposal |-> THIS, documents |-> TRUE]>>
    /\ referrals = <<>>
    /\ requirements = <<>>
    /\ geometries = <<>>
    /\ action_logs = 0
    /\ \E amount \in Amounts, user \in FinanceGroup, now \in UploadDays,
          number \in OracleInvoiceNumbers,
          gateway \in GatewayOutcomes \ {"raises"} :
           invoice = upload_oracle_invoice(InitInvoiceRow(amount), <<>>, user,
                                           now, number, TRUE, gateway).invoice
    /\ transactions = <<>>
    /\ ledger_net = 0
    /\ calls = NoCalls
    /\ invoicing = NoInvoicing
    /\ invoices = <<>>
    /\ issued = NoPeriod
    /\ elsewhere = <<>>
    /\ children = <<>>
    /\ compliances = <<>>
    /\ cron = NoCron
    /\ last = NoRequest

NextCallback ==
    \/ CallbackChecks
    \/ CallbackCommits

SpecCallback == InitCallback /\ [][NextCallback]_vars

NextInvoice == RecordTransaction

SpecInvoice == InitInvoice /\ [][NextInvoice]_vars

\* an invoice from the upload of its Oracle invoice to its payment
NextGateway ==
    \/ UploadOracleInvoice
    \/ PayInvoiceSuccess
    \/ RecordPayment

SpecGateway == InitInvoice /\ [][NextGateway]_vars

\* ===================================================================
\* properties
\* ===================================================================
\* what a request leaves in the database
Committed(out) == Atomic(Store, out)

\* the last request was to op and ended as err
Did(op, err) == last.op = op /\ last.err = err

NewProposal(app) ==
    /\ proposal.proposal_type = PROPOSAL_TYPE_NEW
    /\ proposal.application_type = app

PendingReferrals(refs) ==
    {i \in DOMAIN refs : refs[i].processing_status = REFERRAL_WITH_REFERRAL}

\* Referral.SENT_CHOICES
SENT_CHOICES == {1, 2}

\* ------------------------------------------------------------------- C1
\* C1: for a proposal in with_referral, Referral.complete on one of two or
\* more pending referrals leaves processing_status at with_referral, and
\* Referral.complete on the last pending referral sets it to with_assessor
\* when that referral's sent_from is 1 and to with_approver otherwise
\* (checked for either value of sent_from on the completed row).
C1_CompleteRestoresStatus ==
    proposal.processing_status = PROCESSING_STATUS_WITH_REFERRAL =>
        \A i \in PendingReferrals(referrals), user \in Users,
           doc \in BOOLEAN, from \in SENT_CHOICES :
            LET s == [Store EXCEPT !.referrals[i].sent_from = from]
                out == complete(s, user, i, doc)
                after == Atomic(s, out)
            IN /\ out.err = "ok"
               /\ after.referrals[i].processing_status = REFERRAL_COMPLETED
               /\ Cardinality(PendingReferrals(referrals)) >= 2 =>
                     after.proposal.processing_status =
                         PROCESSING_STATUS_WITH_REFERRAL
               /\ Cardinality(PendingReferrals(referrals)) = 1 =>
                     after.proposal.processing_status =
                         IF from = 1 THEN PROCESSING_STATUS_WITH_ASSESSOR
                         ELSE PROCESSING_STATUS_WITH_APPROVER

\* two referrals were sent and the last of them has just been completed
C1_LastReferralCompleted ==
    /\ Did("complete", "ok")
    /\ Len(referrals) = 2
    /\ PendingReferrals(referrals) = {}
    /\ \A i \in DOMAIN referrals :
          referrals[i].processing_status = REFERRAL_COMPLETED
    /\ proposal.processing_status = PROCESSING_STATUS_WITH_ASSESSOR

\* ------------------------------------------------------------------- C2
\* C2: final_approval of a proposal that is not an amendment succeeds only
\* if the actor can assess the proposal, the proposal is with_approver and
\* the applicant has an address; when it raises, processing_status, the
\* approval link and invoicing_details are what they were before the call.
C2_FinalApprovalPreconditions ==
    proposal.proposal_type # PROPOSAL_TYPE_AMENDMENT =>
        \A user \in Users, in \in ApprovalInputs(proposal) :
            LET out == final_approval(Store, user, in[1], in[2])
                after == Committed(out).proposal
            IN IF out.err = "ok"
               THEN /\ user \in ApproverGroup
                    /\ proposal.processing_status =
                           PROCESSING_STATUS_WITH_APPROVER
                    /\ in[2].address
               ELSE /\ after.processing_status = proposal.processing_status
                    /\ after.approval = proposal.approval
                    /\ after.invoicing_details = proposal.invoicing_details

\* an approver has issued the approval of a renewal
C2_RenewalApproved ==
    /\ Did("final_approval", "ok")
    /\ proposal.proposal_type = PROPOSAL_TYPE_RENEWAL
    /\ proposal.approved_by \in ApproverGroup
    /\ proposal.invoicing_details
    /\ proposal.processing_status =
           PROCESSING_STATUS_APPROVED_EDITING_INVOICING

\* ------------------------------------------------------------------- C3
LicenceDocumentErrors ==
    {"ValidationError: exactly one license document",
     "ValidationError: exactly one cover letter",
     "ValidationError: exactly one sign-off sheet",
     "serializers.ValidationError: missing mandatory documents"}

HasApproval(apps) ==
    \E i \in DOMAIN apps : apps[i].current_proposal = THIS

\* C3: final_approval by an approver on a new lease/licence proposal that is
\* with_approver, with complete details and an applicant address, but for
\* which there is not exactly one licence document, one cover letter and
\* one sign-off sheet, fails with a ValidationError; afterwards there is no
\* Approval for the proposal and processing_status is still with_approver.
C3_DocumentsRequired ==
    ( /\ NewProposal(APPLICATION_TYPE_LEASE_LICENCE)
      /\ proposal.processing_status = PROCESSING_STATUS_WITH_APPROVER
      /\ proposal.proposed_issuance_approval.stored
      /\ ~HasApproval(approvals) ) =>
        \A user \in ApproverGroup, in \in ApprovalInputs(proposal) :
            ( /\ in[1] \in CompleteDetails(proposal)
              /\ in[2].address
              /\ \E t \in DocTypes : in[2].docs[t] # 1 ) =>
                LET out == final_approval(Store, user, in[1], in[2])
                IN /\ out.err \in LicenceDocumentErrors
                   /\ ~HasApproval(Committed(out).approvals)
                   /\ Committed(out).proposal.processing_status =
                          PROCESSING_STATUS_WITH_APPROVER

\* the approver's request has just failed for want of a cover letter
C3_CoverLetterMissing ==
    /\ Did("final_approval",
                      "ValidationError: exactly one cover letter")
    /\ NewProposal(APPLICATION_TYPE_LEASE_LICENCE)
    /\ proposal.processing_status = PROCESSING_STATUS_WITH_APPROVER
    /\ approvals = <<>>

\* ------------------------------------------------------------------- C4
\* C4: for a new registration-of-interest proposal at most one of
\* generated_proposal and generated_competitive_process is set, and
\* final_approval invoked when one of them has already been generated fails
\* with an error: it neither succeeds nor generates the other.
C4_OneGeneratedOutcome ==
    NewProposal(APPLICATION_TYPE_REGISTRATION_OF_INTEREST) =>
        /\ ~( /\ proposal.generated_proposal # "None"
              /\ proposal.generated_competitive_process )
        /\ ( \/ proposal.generated_proposal # "None"
             \/ proposal.generated_competitive_process ) =>
               \A user \in Users, in \in ApprovalInputs(proposal) :
                   final_approval(Store, user, in[1], in[2]).err # "ok"

\* ------------------------------------------------------------------- C5
SupportedForIssuance(p) ==
    \/ /\ p.proposal_type = PROPOSAL_TYPE_RENEWAL
       /\ p.application_type = APPLICATION_TYPE_LEASE_LICENCE
    \/ /\ p.proposal_type = PROPOSAL_TYPE_NEW
       /\ p.application_type \in ApplicationTypes

\* every request to final_approval fails and leaves the store as it was
FinalApprovalRefused ==
    \A user \in Users, in \in ApprovalInputs(proposal) :
        LET out == final_approval(Store, user, in[1], in[2])
        IN /\ out.err # "ok"
           /\ Committed(out) = Store

AssessorTargets ==
    {PROCESSING_STATUS_WITH_ASSESSOR, PROCESSING_STATUS_WITH_ASSESSOR_CONDITIONS}

ReferralTargets ==
    {PROCESSING_STATUS_WITH_REFERRAL, PROCESSING_STATUS_WITH_REFERRAL_CONDITIONS}

HasReferral(user) == \E i \in DOMAIN referrals : referrals[i].referral = user

\* the actor the claim allows for a target status
AllowedForTarget(user, status) ==
    \/ status \in AssessorTargets /\ user \in AssessorGroup
    \/ status = PROCESSING_STATUS_WITH_APPROVER /\ user \in ApproverGroup
    \/ status \in ReferralTargets /\ HasReferral(user)

\* the actor the current status of the proposal allows
AllowedInStatus(user) ==
    \/ /\ proposal.processing_status \in AssessorTargets \cup ReferralTargets
       /\ user \in AssessorGroup
    \/ /\ proposal.processing_status = PROCESSING_STATUS_WITH_APPROVER
       /\ user \in ApproverGroup
    \/ /\ proposal.processing_status \in ReferralTargets
       /\ HasReferral(user)

\* C6 as stated: move_to_status raises NotAuthorized and changes nothing
\* unless the actor is in the assessor group for the targets with_assessor
\* and with_assessor_conditions, in the approver group for the target
\* with_approver, or a referee of the proposal for the targets
\* with_referral and with_referral_conditions.
C6_AuthorisedByTarget ==
    \A user \in Users, status \in TargetStatuses, comment \in Comments(proposal) :
        ~AllowedForTarget(user, status) =>
            LET out == move_to_status(Store, user, status, comment)
            IN /\ out.err = "ProposalNotAuthorized"
               /\ out.st = Store

\* C6, amended: move_to_status raises NotAuthorized and changes nothing
\* unless the actor can assess the proposal in its current status (a member
\* of the assessor group while it is with_assessor, with_assessor_conditions,
\* with_referral or with_referral_conditions, a member of the approver group
\* while it is with_approver) or has a referral on the proposal while it is
\* with_referral or with_referral_conditions; whoever is so authorised is
\* never refused as NotAuthorized, whatever the target.
C6_AuthorisedByCurrentStatus ==
    \A user \in Users, status \in TargetStatuses, comment \in Comments(proposal) :
        LET out == move_to_status(Store, user, status, comment)
        IN IF AllowedInStatus(user)
           THEN out.err # "ProposalNotAuthorized"
           ELSE /\ out.err = "ProposalNotAuthorized"
                /\ out.st = Store

\* a member of the approver group has just been refused while the proposal
\* is with the assessor
C6_Refused ==
    /\ Did("move_to_status", "ProposalNotAuthorized")
    /\ proposal.processing_status = PROCESSING_STATUS_WITH_ASSESSOR

\* ------------------------------------------------------------------- C7
\* C7: move_to_status raises an error and leaves processing_status
\* unchanged when the proposal is with_referral and the target is
\* with_assessor, with_assessor_conditions or with_approver, and when the
\* target is not a recognised status.
C7_RefusedTransitions ==
    \A user \in Users, status \in TargetStatuses, comment \in Comments(proposal) :
        ( \/ /\ proposal.processing_status = PROCESSING_STATUS_WITH_REFERRAL
             /\ status \in AssessorTargets \cup {PROCESSING_STATUS_WITH_APPROVER}
          \/ status \notin AssessorTargets \cup ReferralTargets
                               \cup {PROCESSING_STATUS_WITH_APPROVER} ) =>
            LET out == move_to_status(Store, user, status, comment)
            IN /\ out.err # "ok"
               /\ out.st.proposal.processing_status = proposal.processing_status

\* the assessor has just been refused a move out of with_referral
C7_RefusedWhileWithReferral ==
    /\ Did("move_to_status",
                      "ValidationError: cannot change the current status")
    /\ proposal.processing_status = PROCESSING_STATUS_WITH_REFERRAL
    /\ PendingReferrals(referrals) # {}

\* ------------------------------------------------------------------- C8
RowsFor(reqs, std) ==
    {i \in DOMAIN reqs : reqs[i].standard_requirement = std}

\* C8: move_to_status with the target equal to the current status changes
\* nothing (status, requirements, geometry locks and action log), and
\* over any sequence of transitions into with_assessor_conditions each
\* default standard requirement is attached to the proposal at most once.
C8_SameStatusNoOp ==
    /\ \A user \in Users, comment \in {"", "sent back"} :
          move_to_status(Store, user, proposal.processing_status, comment).st
              = Store
    /\ \A std \in DefaultStandardRequirements :
          Cardinality(RowsFor(requirements, std)) <= 1

\* a request for the status the proposal already has has just returned
\* without a write, the default requirements being attached
C8_AskedForSameStatus ==
    /\ Did("move_to_status", "ok")
    /\ ~last.wrote
    /\ proposal.processing_status = PROCESSING_STATUS_WITH_ASSESSOR_CONDITIONS
    /\ \A std \in DefaultStandardRequirements :
          Cardinality(RowsFor(requirements, std)) = 1
    /\ geometries[1].locked
    /\ action_logs >= 3

\* ------------------------------------------------------------------- C9
\* C9: Proposal.send_referral creates a Referral only when no Referral to
\* that referee exists for the proposal and then leaves the proposal in
\* with_referral; there is at most one Referral row per referee; a send to
\* a referee who already has one fails and leaves processing_status as it
\* was before the call.
C9_OneReferralPerReferee ==
    /\ \A i, j \in DOMAIN referrals :
          referrals[i].referral = referrals[j].referral => i = j
    /\ \A user \in Users, email \in ReferralEmails :
          LET out == send_referral(Store, user, email)
              after == Committed(out)
          IN /\ after.referrals # referrals =>
                   /\ ~HasReferral(email)
                   /\ after.referrals =
                          Append(referrals, NewReferral(email, user, 1))
                   /\ after.proposal.processing_status =
                          PROCESSING_STATUS_WITH_REFERRAL
             /\ HasReferral(email) =>
                   /\ out.err # "ok"
                   /\ after.referrals = referrals
                   /\ after.proposal.processing_status =
                          proposal.processing_status

\* a second referral to the same referee has just been refused while the
\* proposal was with the assessor
C9_DuplicateRefused ==
    /\ Did("send_referral", "ValidationError: referral already sent")
    /\ proposal.processing_status = PROCESSING_STATUS_WITH_ASSESSOR
    /\ Len(referrals) = 1

\* ------------------------------------------------------------------ C10
\* C10: Invoice.balance is amount plus the credits less the debits of the
\* invoice's transactions, a value with two decimal places; with no
\* transaction it is the amount.
C10_Balance ==
    /\ balance(invoice, transactions) = invoice.amount + ledger_net
    /\ balance(invoice, transactions) % 10 = 0
    /\ transactions = <<>> => balance(invoice, transactions) = invoice.amount

\* two transactions are recorded and credits and debits differ
C10_TransactionsRecorded ==
    /\ Did("record_transaction", "ok")
    /\ Len(transactions) >= 2
    /\ ledger_net # 0

\* C11: whenever record_transaction stores a transaction after which the
\* balance of the invoice is exactly 0.00, the invoice is paid when the call
\* returns; and no record_transaction call takes a paid invoice out of paid
C11_PaidAtZeroBalance ==
    \A user \in Users, credit \in MoneyInputs, debit \in MoneyInputs :
        LET out == record_transaction(invoice, transactions, user, credit, debit)
        IN /\ ( /\ out.transactions # transactions
                /\ balance(out.invoice, out.transactions) = 0 )
              => out.invoice.status = INVOICE_STATUS_PAID
           /\ invoice.status = INVOICE_STATUS_PAID
              => out.invoice.status = INVOICE_STATUS_PAID

\* a recorded transaction has brought the balance to 0.00
C11_PaidByTransaction ==
    /\ Did("record_transaction", "ok")
    /\ last.wrote
    /\ balance(invoice, transactions) = 0
    /\ invoice.status = INVOICE_STATUS_PAID

\* C12: the payment-success callback is idempotent: called for an invoice
\* that is already paid it creates no further InvoiceTransaction, leaves the
\* status of the invoice as it is and answers with success (200)
C12_CallbackIdempotent ==
    invoice.status = INVOICE_STATUS_PAID =>
        LET out == pay_invoice_success(invoice, transactions, TRUE)
        IN /\ out.transactions = transactions
           /\ out.invoice = invoice
           /\ out.err = "200"

\* the failures of the payment gateway: the client raises, or its answer
\* has a status other than 200
GatewayFailures == {"raises", "status not 200"}

\* C13: when a finance officer uploads an Oracle invoice and the step at the
\* payment gateway fails, the local change is kept: the invoice is unpaid,
\* date_issued is the time of the call and date_due is
\* DEFAULT_DAYS_BEFORE_PAYMENT_DUE days later
C13_LocalChangeKept ==
    \A user \in FinanceGroup, now \in UploadDays,
       number \in OracleInvoiceNumbers, gateway \in GatewayFailures :
        LET out == InvoiceAtomic(invoice, transactions,
                       upload_oracle_invoice(invoice, transactions, user, now,
                                             number, TRUE, gateway))
        IN /\ out.invoice.status = INVOICE_STATUS_UNPAID
           /\ out.invoice.date_issued = now
           /\ out.invoice.date_due = now + DEFAULT_DAYS_BEFORE_PAYMENT_DUE

\* C14: upload_oracle_invoice and record_transaction called by a user who is
\* not a finance officer change nothing: no InvoiceTransaction is created
\* and the invoice row (status, date_issued, date_due, Oracle invoice number)
\* is as it was
C14_NotFinanceOfficerNoChange ==
    \A user \in Users \ FinanceGroup :
        /\ \A now \in UploadDays, number \in OracleInvoiceNumbers,
              is_valid \in BOOLEAN, gateway \in GatewayOutcomes :
               LET out == InvoiceAtomic(invoice, transactions,
                              upload_oracle_invoice(invoice, transactions,
                                  user, now, number, is_valid, gateway))
               IN out.invoice = invoice /\ out.transactions = transactions
        /\ \A credit \in MoneyInputs, debit \in MoneyInputs :
               LET out == record_transaction(invoice, transactions, user,
                                             credit, debit)
               IN out.invoice = invoice /\ out.transactions = transactions

\* an upload by a user who is not a finance officer was refused on an
\* invoice that a finance officer had uploaded before
C14_UploadRefused ==
    /\ Did("upload_oracle_invoice", "no permission")
    /\ ~last.wrote
    /\ invoice.status = INVOICE_STATUS_UNPAID
    /\ invoice.oracle_invoice_number \in OracleInvoiceNumbers

\* C15: when two assessors call move_to_status at the same time on the same
\* proposal, both starting from the same processing_status and asking for
\* different statuses, at most one call succeeds (the other fails on the
\* stale status)
C15_AtMostOneSucceeds ==
    \A c \in Callers, d \in Callers :
        ( /\ c # d
          /\ calls[c].pc = "done" /\ calls[d].pc = "done"
          /\ calls[c].raced /\ calls[d].raced
          /\ calls[c].loaded.processing_status
             = calls[d].loaded.processing_status
          /\ calls[c].status # calls[d].status
          /\ calls[c].status # calls[c].loaded.processing_status
          /\ calls[d].status # calls[d].loaded.processing_status )
        => ~(calls[c].err = "ok" /\ calls[d].err = "ok")

\* C16: move_to_status, send_referral, final_approval,
\* finance_complete_editing and Referral.complete are all-or-nothing: when
\* one of them raises an error, the rows are as they were before the call
\* (move_to_status opens no transaction: it raises before its first write)
C16_AllOrNothing ==
    /\ \A user \in Users, status \in TargetStatuses \cup {"discarded"},
          comment \in Comments(proposal) :
           LET out == move_to_status(Store, user, status, comment)
           IN out.err # "ok" => NotAtomic(Store, out) = Store
    /\ \A user \in Users, email \in ReferralEmails :
           LET out == send_referral(Store, user, email)
           IN out.err # "ok" => Committed(out) = Store
    /\ \A user \in Users, in \in ApprovalInputs(proposal) :
           LET out == final_approval(Store, user, in[1], in[2])
           IN out.err # "ok" => Committed(out) = Store
    /\ \A user \in Users, i \in DOMAIN referrals, doc \in BOOLEAN :
           LET out == complete(Store, user, i, doc)
           IN out.err # "ok" => Committed(out) = Store
    /\ \A data \in FinanceRequests :
           LET out == finance_complete_editing(Books, data)
           IN out.err # "ok" => Atomic(Books, out) = Books

\* a referral to an address outside the department was refused after the
\* proposal had been moved to with_referral: it is with the assessor still
C16_ReferralRolledBack ==
    /\ Did("send_referral", "ValidationError: not a member of the department")
    /\ ~last.wrote
    /\ proposal.processing_status = PROCESSING_STATUS_WITH_ASSESSOR
    /\ referrals # <<>>

\* the calendar day after a date
NextDay(date) ==
    IF date[3] < DaysInMonth(date[1], date[2])
    THEN <<date[1], date[2], date[3] + 1>>
    ELSE IF date[2] < 12 THEN <<date[1], date[2] + 1, 1>>
    ELSE <<date[1] + 1, 1, 1>>

FirstOfNextMonth(date) ==
    IF date[2] < 12 THEN <<date[1], date[2] + 1, 1>> ELSE <<date[1] + 1, 1, 1>>

\* the days from a date to the first of the next month
RestOfMonth(date) == DaysInMonth(date[1], date[2]) - date[3] + 1

\* the days from a date to a later one, counted month by month
RECURSIVE DaysFrom(_, _)
DaysFrom(from, to) ==
    IF from[1] = to[1] /\ from[2] = to[2] THEN to[3] - from[3]
    ELSE RestOfMonth(from) + DaysFrom(FirstOfNextMonth(from), to)

\* the date n days after a date
RECURSIVE DaysLater(_, _)
DaysLater(date, n) ==
    IF n < RestOfMonth(date) THEN <<date[1], date[2], date[3] + n>>
    ELSE DaysLater(FirstOfNextMonth(date), n - RestOfMonth(date))

Year2024 == [start_date |-> <<2024, 1, 1>>, expiry_date |-> <<2024, 12, 31>>]

\* C17: renew_approval proposes for the renewal a start_date that is the day
\* after the original expiry_date and an expiry_date that is the original
\* expiry_date plus (original expiry_date minus original start_date); for
\* the original period 2024-01-01..2024-12-31 that is 2025-01-01..2025-12-31
C17_RenewalPeriod ==
    \A i \in DOMAIN children :
        children[i].proposal_type = PROPOSAL_TYPE_RENEWAL =>
            LET new == children[i].proposed_issuance_approval
            IN /\ new.start_date = NextDay(issued.expiry_date)
               /\ new.expiry_date
                  = DaysLater(issued.expiry_date,
                              DaysFrom(issued.start_date, issued.expiry_date))
               /\ issued = Year2024 =>
                      /\ new.start_date = <<2025, 1, 1>>
                      /\ new.expiry_date = <<2025, 12, 31>>

\* the approval for the year 2024 has been renewed
C17_Renewed2024 ==
    /\ Did("renew_approval", "ok")
    /\ last.wrote
    /\ issued = Year2024
    /\ \E i \in DOMAIN children :
           children[i].proposal_type = PROPOSAL_TYPE_RENEWAL

\* the renewals and amendments of the proposal that are not discarded
NotDiscarded(kids) ==
    {i \in DOMAIN kids :
        kids[i].processing_status # PROCESSING_STATUS_DISCARDED}

\* C18: after any sequence of renew_approval and amend_approval calls the
\* proposal has at most one child proposal that is not discarded; and a call
\* made while a child is with_assessor fails and creates no proposal
C18_OneActiveChild ==
    /\ Cardinality(NotDiscarded(children)) <= 1
    /\ WithAssessor(children) # {} =>
           /\ renew_approval(Lineage).err # "ok"
           /\ amend_approval(Lineage).err # "ok"
           /\ Atomic(Lineage, renew_approval(Lineage)).children = children
           /\ Atomic(Lineage, amend_approval(Lineage)).children = children

\* the requirements of reqs with one of the standard requirements stds that
\* are not deleted
Live(reqs, stds) ==
    {i \in WithStandard(reqs, stds) : ~reqs[i].is_deleted}

\* the quarterly statements of reqs
Quarterly(reqs) ==
    WithStandard(reqs, {INVOICING_PERCENTAGE_GROSS_TURNOVER_QUARTERLY})

\* reqs and after have the same rows with the same is_deleted flags
SameRows(reqs, after) ==
    /\ Len(after) = Len(reqs)
    /\ \A i \in DOMAIN reqs : after[i].is_deleted = reqs[i].is_deleted

\* C19: for an approval charged a percentage of gross turnover in arrears
\* and configured quarterly, with quarterly statements among its
\* requirements, switching to monthly and running
\* update_gross_turnover_requirements marks the quarterly statements deleted
\* and leaves exactly one monthly statement that is not deleted; a second
\* run adds no requirement and changes no is_deleted flag.
C19_SwitchToMonthly ==
    (/\ invoicing.charge_method
            = CHARGE_METHOD_PERCENTAGE_OF_GROSS_TURNOVER_IN_ARREARS
     /\ invoicing.invoicing_repetition_type = REPETITION_TYPE_QUARTERLY
     /\ Live(requirements,
             {INVOICING_PERCENTAGE_GROSS_TURNOVER_QUARTERLY}) # {})
    => LET monthly == [invoicing EXCEPT !.invoicing_repetition_type =
                                            REPETITION_TYPE_MONTHLY]
           once == update_gross_turnover_requirements(requirements, monthly)
           twice == update_gross_turnover_requirements(once.st, monthly)
       IN /\ once.err = "ok"
          /\ \A i \in Quarterly(once.st) : once.st[i].is_deleted
          /\ Cardinality(Live(once.st,
                 {INVOICING_PERCENTAGE_GROSS_TURNOVER_MONTHLY})) = 1
          /\ twice.err = "ok"
          /\ SameRows(once.st, twice.st)

\* the statements of reqs that are not deleted are those of the charge
\* method and repetition type of inv
Selected(reqs, inv) ==
    LET quarterly == Live(reqs,
                         {INVOICING_PERCENTAGE_GROSS_TURNOVER_QUARTERLY})
        monthly == Live(reqs, {INVOICING_PERCENTAGE_GROSS_TURNOVER_MONTHLY})
    IN IF inv.charge_method
          = CHARGE_METHOD_PERCENTAGE_OF_GROSS_TURNOVER_IN_ADVANCE
       THEN quarterly = {} /\ monthly = {}
       ELSE IF inv.invoicing_repetition_type = REPETITION_TYPE_QUARTERLY
       THEN quarterly # {} /\ monthly = {}
       ELSE quarterly = {} /\ monthly # {}

\* C20: after every run of generate_gross_turnover_requirements or
\* update_gross_turnover_requirements that returns, whatever the charge
\* methods and repetition types chosen before, the quarterly and monthly
\* statements that are not deleted are those of the configuration: the
\* quarterly one for in arrears and quarterly, the monthly one for in
\* arrears and monthly, none for in advance.
C20_SelectedStatements ==
    invoicing.charge_method \in GrossTurnoverMethods
    => LET generated == generate_gross_turnover_requirements(requirements,
                                                             invoicing)
           updated == update_gross_turnover_requirements(requirements,
                                                         invoicing)
       IN /\ generated.err = "ok" => Selected(generated.st, invoicing)
          /\ updated.err = "ok" => Selected(updated.st, invoicing)

\* no two compliances have the same requirement and the same due date
NoDuplicates(comps) ==
    \A i, j \in DOMAIN comps :
        i < j => ~(/\ comps[i].requirement = comps[j].requirement
                   /\ comps[i].due_date = comps[j].due_date)

\* C21: however often generate_compliances has run, no two Compliance rows
\* have the same requirement and due date; and a run that follows a run,
\* with the same requirements and the same approval dates, creates no
\* Compliance.
C21_NoDuplicateCompliances ==
    LET once == generate_compliances(Obligations, Today)
        twice == generate_compliances(
                     [Obligations EXCEPT !.compliances = once.st], Today)
    IN /\ NoDuplicates(compliances)
       /\ once.err = "ok" => twice.err = "ok" /\ twice.st = once.st

\* C22: generate_compliances on an amendment leaves every compliance that was
\* due, of the previous proposal and of a requirement copied to the
\* amendment, as one row: discarded when the copy is deleted, and else
\* moved to the amendment, its approval and the copy.
C22_DueCompliancesFollow ==
    proposal.proposal_type = PROPOSAL_TYPE_AMENDMENT
    => LET out == generate_compliances(Obligations, Today)
           copies(c) == {i \in DOMAIN requirements :
                            requirements[i].copied_from = c.requirement}
           rows(c) == {j \in DOMAIN out.st :
                          /\ out.st[j].due_date = c.due_date
                          /\ out.st[j].requirement
                                 \in {c.requirement} \cup copies(c)}
           followed(c) ==
               LET i == CHOOSE i \in copies(c) : TRUE
                   a == out.st[CHOOSE j \in rows(c) : TRUE]
               IN /\ Cardinality(rows(c)) = 1
                  /\ IF requirements[i].is_deleted
                     THEN a.processing_status = COMPLIANCE_STATUS_DISCARDED
                     ELSE /\ a.proposal = THIS
                          /\ a.approval = THIS
                          /\ a.requirement = i
       IN out.err = "ok"
          => \A k \in DOMAIN compliances :
                 (/\ compliances[k].proposal = PREVIOUS
                  /\ compliances[k].processing_status = COMPLIANCE_STATUS_DUE
                  /\ copies(compliances[k]) # {})
                 => followed(compliances[k])

\* the mails of a list that went to one row
MailsTo(sent, id) == SelectSeq(sent, LAMBDA mail : mail.to = id)

\* C23: of the mails sent today, at most one is the 60-day reminder and at
\* most one the 45-day reminder of an approval whose custom CPI for the
\* next invoicing period is not entered, however often the job has run
\* today.
C23_OneReminderADay ==
    cron.job = JOB_CPI
    => \A i \in DOMAIN cron.items :
       \A days \in {SIXTY, FORTY_FIVE} :
           ~cron.items[i].custom_cpi_entered_for_next_invoicing_period
           => Len(SelectSeq(MailsTo(cron.sent, cron.items[i].id),
                            LAMBDA mail : mail.days = days)) <= 1

\* the job fails at this row
Raises(job, row) ==
    IF job = JOB_CPI
    THEN /\ row.has_future_invoicing_periods
         /\ ~row.custom_cpi_entered_for_next_invoicing_period
         /\ DaysDueIn(row) # 0
         /\ row.fails
    ELSE IF job = JOB_COMPLIANCE
    THEN /\ row.processing_status
                \in {COMPLIANCE_STATUS_DUE, COMPLIANCE_STATUS_OVERDUE}
         /\ \/ row.send_reminder = "raises"
            \/ row.has_pending_transfer /\ row.fails
    ELSE /\ row.expiring
         /\ ~row.expiry_notice_sent
         /\ row.status \in {"extended", "current", "suspended"}
         /\ row.fails

\* C24: a run of a job, whichever rows fail, reaches its end, has sent for
\* each row the mails a run on that row alone sends, and, when a row
\* failed, reports the number of rows that failed.
C24_FailuresCounted ==
    cron.job # "None"
    => LET fresh == [cron EXCEPT !.sent = <<>>, !.report = NoReport]
           out == RunJob(cron.job, fresh)
           alone(i) == RunJob(cron.job,
                              [fresh EXCEPT !.items = <<cron.items[i]>>])
       IN /\ out.report.finished
          /\ \A i \in DOMAIN cron.items :
                 MailsTo(out.sent, cron.items[i].id) = alone(i).sent
          /\ LET failed == Cardinality({i \in DOMAIN cron.items :
                                           Raises(cron.job, cron.items[i])})
             IN /\ failed > 0 => out.report.counted
                /\ out.report.counted => out.report.errors = failed

\* the same of the two jobs that keep a list of errors
CountedJobs ==
    cron.job \in {JOB_COMPLIANCE, JOB_ECLASS} => C24_FailuresCounted

\* C25: finance_complete_editing of a once-off charge whose amount is not
\* given, zero or negative fails, and no Invoice is added and the
\* processing_status is the one before the call; of a once-off charge with
\* a positive amount it adds one Invoice, of that amount; of no charge it
\* adds no Invoice and no requirement.
C25_OnceOffCharge ==
    \A data \in FinanceRequests :
        LET out == finance_complete_editing(Books, data)
            after == Atomic(Books, out)
            amount == data.once_off_charge_amount
            saved == data.found /\ data.is_valid
            once_off == saved /\ data.charge_method
                                   = CHARGE_METHOD_ONCE_OFF_CHARGE
        IN /\ (once_off /\ (amount = NULL \/ amount[1] <= 0))
              => /\ out.err # "ok"
                 /\ after.invoices = invoices
                 /\ after.st.proposal.processing_status
                        = proposal.processing_status
           /\ (once_off /\ amount # NULL /\ amount[1] > 0)
              => /\ out.err = "ok"
                 /\ after.st.proposal.processing_status
                        = PROCESSING_STATUS_APPROVED
                 /\ after.invoices
                        = Append(invoices, InitInvoiceRow(amount[1]))
           /\ (saved /\ data.charge_method
                            = CHARGE_METHOD_NO_RENT_OR_LICENCE_CHARGE)
              => /\ out.err = "ok"
                 /\ after.invoices = invoices
                 /\ after.st.requirements = requirements

\* a once-off charge without a valid amount was refused: the proposal is
\* not approved and has no invoice
C25_AmountRefused ==
    /\ Did("finance_complete_editing",
           "ValidationError: invalid invoice amount")
    /\ ~last.wrote
    /\ proposal.processing_status
           = PROCESSING_STATUS_APPROVED_EDITING_INVOICING
    /\ invoices = <<>>

\* an assessor suspends the proposal by one operation and releases it by
\* the other: both succeed, and the status is the one before
Restored(suspended, released) ==
    /\ suspended.err = "ok"
    /\ released.err = "ok"
    /\ Atomic(Store, released).proposal.processing_status
           = proposal.processing_status

\* C26: a proposal with the assessor or with referral that is put on hold
\* and released by on_hold_remove, or sent to the QA officer and released
\* by with_qaofficer_completed, has the processing_status it had before.
C26_SuspendAndRelease ==
    proposal.processing_status \in {PROCESSING_STATUS_WITH_ASSESSOR,
                                    PROCESSING_STATUS_WITH_REFERRAL}
    => \A user \in AssessorGroup :
           LET held == on_hold(Store, user)
               sent == with_qaofficer(Store, user)
           IN /\ Restored(held,
                     on_hold_remove(Atomic(Store, held), user))
              /\ Restored(sent,
                     with_qaofficer_completed(Atomic(Store, sent), user))

PROCESSING_STATUS_CHOICES ==
    {PROCESSING_STATUS_DRAFT, PROCESSING_STATUS_WITH_ASSESSOR,
     PROCESSING_STATUS_WITH_ASSESSOR_CONDITIONS,
     PROCESSING_STATUS_WITH_APPROVER, PROCESSING_STATUS_WITH_REFERRAL,
     PROCESSING_STATUS_WITH_REFERRAL_CONDITIONS,
     PROCESSING_STATUS_APPROVED_APPLICATION,
     PROCESSING_STATUS_APPROVED_COMPETITIVE_PROCESS,
     PROCESSING_STATUS_APPROVED_EDITING_INVOICING,
     PROCESSING_STATUS_APPROVED, PROCESSING_STATUS_DECLINED,
     PROCESSING_STATUS_DISCARDED}

\* C27: the processing_status of the proposal is one of
\* PROCESSING_STATUS_CHOICES, whatever operations have run.
C27_DeclaredStatus ==
    proposal.processing_status \in PROCESSING_STATUS_CHOICES

\* finance_cancel_editing was called on a declined proposal, which is
\* declined still
C27_CancelledDeclined ==
    /\ Did("finance_cancel_editing", "AttributeError")
    /\ proposal.processing_status = PROCESSING_STATUS_DECLINED

\* C29: no step changes a processing_status that is declined or discarded.
C29_Terminal ==
    [][proposal.processing_status \in {PROCESSING_STATUS_DECLINED,
                                       PROCESSING_STATUS_DISCARDED}
       => proposal'.processing_status = proposal.processing_status]_vars

ApprovedToIssue ==
    {PROCESSING_STATUS_APPROVED_APPLICATION,
     PROCESSING_STATUS_APPROVED_COMPETITIVE_PROCESS,
     PROCESSING_STATUS_APPROVED_EDITING_INVOICING}

\* C30: a step that makes the processing_status approved starts from
\* approved_application, approved_competitive_process or
\* approved_editing_invoicing, and a step that makes it one of these three
\* starts from with_approver, unless the proposal is an amendment.
C30_ApprovedInOrder ==
    [][/\ (/\ proposal'.processing_status = PROCESSING_STATUS_APPROVED
           /\ proposal.processing_status # PROCESSING_STATUS_APPROVED)
          => proposal.processing_status \in ApprovedToIssue
       /\ (/\ proposal'.processing_status \in ApprovedToIssue
           /\ proposal.processing_status # proposal'.processing_status
           /\ proposal.proposal_type # PROPOSAL_TYPE_AMENDMENT)
          => proposal.processing_status = PROCESSING_STATUS_WITH_APPROVER]_vars

\* the req_order values of the rows
Orders(reqs) == {reqs[i].req_order : i \in DOMAIN reqs}

\* the operation leaves every row but its req_order, gives no two rows the
\* same req_order and keeps the req_order values
Permuted(out) ==
    /\ DOMAIN out.st = DOMAIN requirements
    /\ UniqueOrder(out.st)
    /\ 0 \notin Orders(out.st)
    /\ Orders(out.st) = Orders(requirements)
    /\ \A i \in DOMAIN requirements :
           [out.st[i] EXCEPT !.req_order = 0]
               = [requirements[i] EXCEPT !.req_order = 0]

\* the listed row with the least (up) or greatest req_order
AtEnd(i, up) ==
    /\ i \in Listed(requirements)
    /\ \A j \in Listed(requirements) :
           IF up THEN requirements[i].req_order <= requirements[j].req_order
           ELSE requirements[i].req_order >= requirements[j].req_order

\* C28: no two requirements of the proposal have the same req_order, none
\* has lost it, and move_up, move_down and swap leave the req_order values
\* what they were, permuted among the rows; move_up of the first and
\* move_down of the last requirement that is not deleted change nothing.
C28_OrderPermuted ==
    /\ UniqueOrder(requirements)
    /\ 0 \notin Orders(requirements)
    /\ \A i \in DOMAIN requirements :
           /\ Permuted(move_up(requirements, i))
           /\ Permuted(move_down(requirements, i))
           /\ AtEnd(i, TRUE) => move_up(requirements, i).st = requirements
           /\ AtEnd(i, FALSE) => move_down(requirements, i).st = requirements
           /\ \A j \in DOMAIN requirements \ {i} :
                  /\ Permuted(swap(requirements, i, j))
                  /\ swap(requirements, i, j).st[i].req_order
                         = requirements[j].req_order

\* a requirement was moved up past another one, around one marked deleted
C28_MovedUp ==
    /\ Did("move_up", "ok")
    /\ last.wrote
    /\ Len(requirements) = MaxOrdered
    /\ \E i \in DOMAIN requirements : requirements[i].is_deleted

\* ---------------------------------------------------------------------
\* C31: every requirement that is saved has exactly one of
\* standard_requirement and free_requirement: a save with neither fails,
\* a save with both fails, and no stored row has both or neither.
ExactlyOne(std, free) == (std # 0) # (free # NO_TEXT)

C31_ExactlyOneRequirement ==
    /\ \A i \in DOMAIN requirements :
           ExactlyOne(requirements[i].standard_requirement,
                      requirements[i].free_requirement)
    /\ \A std \in StandardRequirements, free \in FreeRequirements :
           save(requirements, std, free).err = "ok" => ExactlyOne(std, free)

\* the half of C31 the code does enforce: a row with neither is refused
C31_NeitherRefused ==
    /\ save(requirements, 0, NO_TEXT).err = "ValueError"
    /\ \A i \in DOMAIN requirements :
           \/ requirements[i].standard_requirement # 0
           \/ requirements[i].free_requirement # NO_TEXT

\* ---------------------------------------------------------------------
\* the number of days from the start_date of a period to its expiry_date
Duration(period) == strptime(period.expiry_date) - strptime(period.start_date)

\* C32: the period renew_approval proposes for a renewal has the duration
\* of the original period: as many days lie between its start_date and its
\* expiry_date as between the original start_date and expiry_date, for
\* every original period with start_date <= expiry_date.
C32_SameDuration ==
    \A i \in DOMAIN children :
        /\ children[i].proposal_type = PROPOSAL_TYPE_RENEWAL
        /\ Duration(issued) >= 0
        => Duration(children[i].proposed_issuance_approval) = Duration(issued)

\* what the renewal's period is instead: a day shorter than the original
C32_OneDayShort ==
    \A i \in DOMAIN children :
        children[i].proposal_type = PROPOSAL_TYPE_RENEWAL
        => Duration(children[i].proposed_issuance_approval)
           = Duration(issued) - 1

\* ---------------------------------------------------------------------
\* the financial statements of a kind that the proposal requires
Statements(reqs, code) ==
    {i \in DOMAIN reqs : /\ reqs[i].standard_requirement = code
                         /\ ~reqs[i].is_deleted}

\* C33: finance_complete_editing with a percentage-of-gross-turnover charge
\* method (in arrears or in advance) completes without error and leaves the
\* proposal approved, with an annual financial statement required of it;
\* for the method in advance no quarterly and no monthly statement is
\* required.
C33_GrossTurnoverCompletes ==
    \A data \in FinanceRequests :
        LET out == finance_complete_editing(Books, data)
            after == Atomic(Books, out)
            reqs == after.st.requirements
        IN (data.found /\ data.is_valid
              /\ data.charge_method \in GrossTurnoverMethods)
           => /\ out.err = "ok"
              /\ after.st.proposal.processing_status
                     = PROCESSING_STATUS_APPROVED
              /\ Statements(reqs,
                     INVOICING_PERCENTAGE_GROSS_TURNOVER_ANNUALLY) # {}
              /\ data.charge_method
                     = CHARGE_METHOD_PERCENTAGE_OF_GROSS_TURNOVER_IN_ADVANCE
                 => /\ Statements(reqs,
                         INVOICING_PERCENTAGE_GROSS_TURNOVER_QUARTERLY) = {}
                    /\ Statements(reqs,
                         INVOICING_PERCENTAGE_GROSS_TURNOVER_MONTHLY) = {}

\* what the call does instead: it fails for both methods and every
\* repetition type, and the proposal stays as it was
C33_GrossTurnoverFails ==
    \A data \in FinanceRequests :
        LET out == finance_complete_editing(Books, data)
        IN (data.found /\ data.is_valid
              /\ data.charge_method \in GrossTurnoverMethods)
           => /\ out.err = "TypeError"
              /\ Atomic(Books, out) = Books

\* ---------------------------------------------------------------------
\* the requirements whose recurrence loop generate_compliances runs
Looped ==
    {i \in DOMAIN requirements :
        /\ requirements[i].recurrence
        /\ ~requirements[i].is_deleted
        /\ requirements[i].standard_requirement \notin GrossTurnoverRequired
        /\ requirements[i].due_date # NULL
        /\ ~Before(requirements[i].due_date, Today)}

\* one pass of the loop moves the due date of requirement i forward
MovesForward(i) ==
    Before(requirements[i].due_date,
           Advance(requirements[i].due_date,
                   requirements[i].recurrence_pattern,
                   requirements[i].recurrence_schedule))

\* C34: generate_compliances ends for every recurring requirement: for each
\* recurrence_pattern (weekly, monthly, yearly) a pass of the recurrence
\* loop moves the due date strictly forward, so the loop ends once the date
\* is past approval.expiry_date, and no compliance made in the loop is due
\* after approval.expiry_date.
C34_RecurrenceEnds ==
    LET out == generate_compliances(Obligations, Today)
    IN /\ out.err # "never returns"
       /\ \A i \in Looped : MovesForward(i)
       /\ \A k \in DOMAIN out.st :
              (/\ out.st[k].requirement \in Looped
               /\ out.st[k].due_date
                      # requirements[out.st[k].requirement].due_date)
              => ~Before(issued.expiry_date, out.st[k].due_date)

\* the part of C34 that holds: the weekly and the yearly pattern move the
\* date forward, and every compliance of the loop is due by the expiry date
C34_WeeklyYearlyEnd ==
    LET out == generate_compliances(Obligations, Today)
    IN /\ \A i \in Looped :
              requirements[i].recurrence_pattern \in {1, 3}
              => MovesForward(i)
       /\ (\A i \in Looped : requirements[i].recurrence_pattern \in {1, 3})
              => out.err = "ok"
       /\ \A k \in DOMAIN out.st :
              (/\ out.st[k].requirement \in Looped
               /\ out.st[k].due_date
                      # requirements[out.st[k].requirement].due_date)
              => ~Before(issued.expiry_date, out.st[k].due_date)

\* ---------------------------------------------------------------------
\* C35: whenever the proposal is with_referral, one of its referrals is
\* pending (its processing_status is with_referral); after Referral.recall
\* or Referral.complete has taken the last pending referral away, the
\* proposal is not left with_referral.
C35_PendingWhileWithReferral ==
    proposal.processing_status = PROCESSING_STATUS_WITH_REFERRAL
    => PendingReferralExists(referrals)

\* the part of C35 that holds: Referral.complete of the last pending
\* referral takes the proposal out of with_referral
C35_CompleteRestores ==
    (Did("complete", "ok") /\ ~PendingReferralExists(referrals))
    => proposal.processing_status # PROCESSING_STATUS_WITH_REFERRAL

\* Referral.recall of the last pending referral does not
C35_RecallRestores ==
    (Did("recall", "ok") /\ ~PendingReferralExists(referrals))
    => proposal.processing_status # PROCESSING_STATUS_WITH_REFERRAL

\* ---------------------------------------------------------------------
\* every request has committed or has not started
Settled == \A c \in Callers : calls[c].pc \in {"idle", "done"}

\* C36: when the last two pending referrals of a proposal are completed by
\* two referees at the same time, each Referral.complete in its own
\* transaction, the proposal has the status it had before the referrals
\* (with_assessor or with_approver) once both have committed: it is not
\* left with_referral without a pending referral.
C36_ConcurrentComplete ==
    (Settled /\ Did("complete", "ok") /\ ~PendingReferralExists(referrals))
    => proposal.processing_status
           \in {PROCESSING_STATUS_WITH_ASSESSOR,
                PROCESSING_STATUS_WITH_APPROVER}

\* what holds: a request that did not run beside another one restores the
\* status when it completes the last pending referral
C36_AloneRestores ==
    (Settled /\ Did("complete", "ok") /\ ~PendingReferralExists(referrals)
       /\ \A c \in Callers : ~calls[c].raced)
    => proposal.processing_status = PROCESSING_STATUS_WITH_ASSESSOR

\* ---------------------------------------------------------------------
\* C37: update_gross_turnover_requirements, run for one proposal, leaves the
\* requirements of every other proposal as they are (no is_deleted of a row
\* of another proposal is changed), for every charge method, the percentage
\* of gross turnover in advance included.
C37_OthersUnchanged ==
    UpdateElsewhere(requirements, elsewhere, invoicing) = elsewhere

\* the part of C37 that holds: for every charge method but the percentage of
\* gross turnover in advance the rows of other proposals are left alone
C37_OthersUnchangedButInAdvance ==
    invoicing.charge_method
        # CHARGE_METHOD_PERCENTAGE_OF_GROSS_TURNOVER_IN_ADVANCE
    => UpdateElsewhere(requirements, elsewhere, invoicing) = elsewhere

\* ---------------------------------------------------------------------
\* C38: in every state an invoice that is paid has the balance 0.00, for
\* every interleaving of record_transaction calls (partial debits, credits)
\* and of the payment-success callback on the invoice.
C38_PaidMeansZeroBalance ==
    invoice.status = INVOICE_STATUS_PAID
    => balance(invoice, transactions) = 0

\* what holds: the request that turns the invoice to paid by a recorded
\* transaction leaves the balance 0.00
C38_PaidByTransactionAtZero ==
    \A user \in Users, credit \in MoneyInputs, debit \in MoneyInputs :
        LET out == record_transaction(invoice, transactions, user, credit,
                                      debit)
        IN (/\ invoice.status # INVOICE_STATUS_PAID
            /\ out.invoice.status = INVOICE_STATUS_PAID)
           => balance(out.invoice, out.transactions) = 0

\* ---------------------------------------------------------------------
\* a final_approval of the proposal as it is now, by an approver, with
\* complete details and every document, that succeeds
CanBeApproved ==
    \E user \in ApproverGroup, d \in CompleteDetails(proposal) :
        LET out == final_approval(Store, user, d, GoodEnv)
        IN /\ out.err = "ok"
           /\ out.st.proposal.processing_status
                  = PROCESSING_STATUS_APPROVED_EDITING_INVOICING

\* C39: after reissue_approval has moved an approved lease or licence
\* proposal back to with_approver, a final_approval by an approver with
\* valid documents can succeed again and bring the proposal to
\* approved_editing_invoicing: the issuance does not fail for the invoicing
\* details that already exist.
C39_ReissuedCanBeApproved ==
    (/\ Did("reissue_approval", "ok")
     /\ proposal.processing_status = PROCESSING_STATUS_WITH_APPROVER)
    => CanBeApproved

\* what holds: a proposal that is with the approver and has no invoicing
\* details yet can be approved
C39_FirstApproval ==
    (/\ proposal.processing_status = PROCESSING_STATUS_WITH_APPROVER
     /\ proposal.proposed_issuance_approval.stored
     /\ ~proposal.invoicing_details)
    => CanBeApproved

\* ---------------------------------------------------------------------
\* the debits of the invoice amount that the callback created
CallbackDebits ==
    {k \in DOMAIN transactions :
        transactions[k] = [credit |-> 0, debit |-> invoice.amount]}

\* C40: when the payment-success callback of an unpaid invoice is delivered
\* twice at the same time, one debit InvoiceTransaction of the invoice
\* amount is created in all and the invoice ends paid: the two deliveries
\* do not both pass the test that the invoice is unpaid and create a
\* transaction.
C40_OneDebit ==
    /\ Cardinality({c \in Callers : calls[c].err = "200"}) <= 1
    /\ Cardinality(CallbackDebits) <= 1
    /\ (Settled /\ Did("pay_invoice_success", "200"))
          => /\ Cardinality(CallbackDebits) = 1
             /\ invoice.status = INVOICE_STATUS_PAID

\* what holds: deliveries that do not run beside one another create one
\* debit, and the invoice is paid after every delivery that passed
C40_OneDebitInTurn ==
    /\ (\A c \in Callers : ~calls[c].raced)
          => Cardinality(CallbackDebits) <= 1
    /\ (Settled /\ Did("pay_invoice_success", "200"))
          => invoice.status = INVOICE_STATUS_PAID

====
